---- MODULE Spec2Model ----
(***************************************************************************)
(* Model of the chess-puzzle bot (src/bot.js): the puzzle catalog, the     *)
(* per-group rotation cursors, the standard-mode scoring path and the      *)
(* battle sessions.  Every handler is cut at its `await` points: the code  *)
(* between two awaits runs to completion on the single-threaded event      *)
(* loop and is one action; a suspended handler is a record in `tasks`.     *)
(***************************************************************************)
EXTENDS Integers, Sequences, FiniteSets, TLC

\* ---------------------------------------------------------------- constants
SCORE_CORRECT == 8
SCORE_WRONG == -16
\* STREAK_BONUS_MULTIPLIER = 0.2, kept as the exact fraction 2/10
STREAK_BONUS_NUM == 2
STREAK_BONUS_DEN == 10
BATTLE_PUZZLE_COUNT == 5

\* ------------------------------------------------------------------- bounds
MaxPuzzleIds == 1     \* puzzle ids (uuids) ever handed out in the scoring runs
MaxMsgs == 2          \* keyboard messages posted, all chats together
MaxTasks == 1         \* handlers suspended at an await at the same time
MaxAdjust == 1        \* admin score adjustments
MaxAttempts == 3      \* first attempts not counted correct on one user record
MaxCatalog == 2       \* puzzle ids handed out in the rotation runs
MaxRotMsgs == 1       \* keyboard messages posted in the rotation runs
MaxServes == 3        \* rotation draws logged per chat
MaxInitStreak == 9    \* streak of the user loaded from the data file
MaxSessions == 1      \* battles started in the battle runs
MaxBattleTasks == 2   \* handlers suspended at the same time in the battle runs
MaxBattleMsgs == 5    \* battle messages a click can be aimed at
MinStartCatalog == 4   \* smallest data file of the battle-start runs
MaxStartCatalog == 6  \* largest data file of the battle-start runs
MaxStartSessions == 3 \* battles started in the battle-start runs
MaxRemoved == 1       \* puzzle ids an admin removes in the battle-start runs
MaxAuthored == 3      \* puzzles an admin creates in the catalog runs
MaxMixedMsgs == 3     \* keyboard messages posted in the mixed runs
MaxGroupCatalog == 2  \* puzzles of the data file of the group runs
MaxCursor == 2        \* largest cursor of a group of that data file
MaxTitleMsgs == 2     \* /stats replies in the title runs
MaxFilePuzzles == 2   \* puzzles of the data file of the load runs
MaxRaceCatalog == 3   \* puzzles of the data file of the race runs
MaxRaceTasks == 2     \* /puzzle handlers suspended at once in the race runs
MaxRaceMsgs == 2      \* keyboard messages posted in the race runs
MaxCursorBattles == 1 \* battles started in the cursor runs
MaxCursorMsgs == 1    \* keyboard messages posted in the cursor runs

\* --------------------------------------------------------------- universes
Users == {"u1", "u2"}
Chats == {"g1", "pv"}
NoText == "<none>"
Texts == {"", "x", "y"}
Keys == {"A", "B"}
NoKey == "null"

\* msg.chat.type of a chat
ChatType(c) == IF c = "g1" THEN "group" ELSE "private"

IsGroupChat(c) == ChatType(c) = "group" \/ ChatType(c) = "supergroup"

\* JavaScript truthiness of a stored option text (a missing key reads as
\* undefined, the empty string is falsy as well)
Truthy(t) == t # NoText /\ t # ""

VARIABLES
  puzzles,        \* data.puzzles: id -> puzzle record
  users,          \* data.users: uid -> user record
  groups,         \* data.groups: chatId -> group record
  activeBattles,  \* activeBattles: chatId -> session id (0: no entry)
  sessions,       \* the battle objects, by identity
  tasks,          \* handlers suspended at an await, oldest first
  msgs,           \* per chat: the keyboards Telegram shows, index = message_id
  nextPid,        \* number of uuids handed out
  nextSid,        \* number of battle objects created
  adjusts,        \* number of /adjustscore commands handled
  submitted,      \* history: <<uid, puzzleId>> with a standard submission made
  served,         \* history: per chat, the ids drawn by /puzzle rotation, and
                  \* whether /reindexpuzzles ran since the catalog last changed
  sessMsgs,       \* history: posted, the <<sid, chatId, msgId, index>> of the
                  \* battle postings; closed, the closing messages in order
  disk            \* the document of data/data.json, as last written

battleVars == <<activeBattles, sessions, nextSid, sessMsgs>>

vars == <<puzzles, users, groups, activeBattles, sessions, tasks, msgs,
          nextPid, nextSid, adjusts, submitted, served, sessMsgs, disk>>

\* the document JSON.stringify(data) writes
Doc(pz, us, gs) == [puzzles |-> pz, users |-> us, groups |-> gs]

\* saveData() as the last change of a handler
saveData == disk' = Doc(puzzles', users', groups')

\* ----------------------------------------------------------------- helpers
Range(s) == {s[i] : i \in 1..Len(s)}

RemoveAt(s, i) == [j \in 1..(Len(s) - 1) |-> IF j < i THEN s[j] ELSE s[j + 1]]

Perms(n) == {f \in [1..n -> 1..n] : \A i, j \in 1..n : f[i] = f[j] => i = j}

\* the second value, whichever is larger
TakeSecond(a, b) == b

\* the first argument whatever the second
KeepFirst(a, b) == a

\* Math.max(a, b)
Max(a, b) == IF a > b THEN a ELSE b

\* Math.round(n/d) for d > 0: floor(n/d + 1/2)
MathRound(n, d) == (2 * n + d) \div (2 * d)

\* p.options.sort(() => 0.5 - Math.random()): any order of the same options
ShuffleOutcomes(opts) ==
  {[i \in 1..Len(opts) |-> opts[f[i]]] : f \in Perms(Len(opts))}

\* a keyboard that shows the first option on every button
makeOptionsKeyboardFirst(opts) == [i \in 1..Len(opts) |-> opts[1].text]

\* makeOptionsKeyboard: postedOptionsMap, letter number i -> options[i].text
makeOptionsKeyboard(opts) == [i \in 1..Len(opts) |-> opts[i].text]

\* p.options.some(opt => opt.isAnswer)
HasAnswer(opts) == \E i \in 1..Len(opts) : opts[i].isAnswer

\* p.options.find(opt => opt.isAnswer)?.text || null
CorrectMoveText(opts) ==
  IF HasAnswer(opts)
  THEN LET i == CHOOSE k \in 1..Len(opts) :
                  opts[k].isAnswer /\ \A j \in 1..(k - 1) : ~opts[j].isAnswer
       IN IF opts[i].text = "" THEN NoText ELSE opts[i].text
  ELSE NoText

\* data.puzzles is an object: its keys are listed in insertion order, which
\* the model keeps as the order of the sequence `puzzles`
PuzzleIds(pz) == {pz[i].id : i \in 1..Len(pz)}

\* position of data.puzzles[id] in the sequence, 0 when the key is missing
IndexOfId(pz, id) ==
  IF id \in PuzzleIds(pz) THEN CHOOSE i \in 1..Len(pz) : pz[i].id = id ELSE 0

\* arr.sort((a, b) => a.puzzleNumber - b.puzzleNumber) over the positions
\* `idx` of pz: Array.prototype.sort is stable
RECURSIVE SortByNumber(_, _)
SortByNumber(pz, idx) ==
  IF idx = {} THEN <<>>
  ELSE LET m == CHOOSE i \in idx : \A j \in idx :
                  \/ pz[i].puzzleNumber < pz[j].puzzleNumber
                  \/ (pz[i].puzzleNumber = pz[j].puzzleNumber /\ i <= j)
       IN <<m>> \o SortByNumber(pz, idx \ {m})

\* Object.values(data.puzzles).sort(by puzzleNumber), as positions in pz
availablePuzzles(pz) == SortByNumber(pz, 1..Len(pz))

\* the filter of /battle: photo present, options non-empty, some isAnswer
IsValidPuzzle(p) == Len(p.options) > 0 /\ HasAnswer(p.options)

validPuzzles(pz) == SortByNumber(pz, {i \in 1..Len(pz) : IsValidPuzzle(pz[i])})

\* ------------------------------------------------------------ registration
NewUser == [score |-> 0, attempts |-> 0, correct |-> 0, currentStreak |-> 0,
            maxStreak |-> 0, answers |-> {}, lastPuzzleId |-> 0]

\* a registration that writes the zeroed record whatever is there
registerUserAnew(us, u) ==
  [v \in DOMAIN us \cup {u} |-> IF v = u THEN NewUser ELSE us[v]]

\* registerUser(user)
registerUser(us, u) == IF u \in DOMAIN us THEN us ELSE (u :> NewUser) @@ us

\* the file after registerUser(from) at the head of a handler: written when
\* the record is new
registerUserSaved(u) ==
  IF u \in DOMAIN users THEN disk
  ELSE Doc(puzzles, registerUser(users, u), groups)

NewGroup == [score |-> 0, attempts |-> 0, nextPuzzleIndex |-> 0,
             battleNextPuzzleIndex |-> 0]

\* addGroup(chat)
addGroup(gs, c) == IF c \in DOMAIN gs THEN gs ELSE (c :> NewGroup) @@ gs

\* user.answers is kept as a set of <<puzzleId, text>>, one per key
AnswerOf(u, pid) ==
  IF \E a \in u.answers : a[1] = pid
  THEN (CHOOSE a \in u.answers : a[1] = pid)[2]
  ELSE NoText

\* user.answers[pid] = t
SetAnswer(u, pid, t) ==
  [u EXCEPT !.answers = {a \in u.answers : a[1] # pid} \cup {<<pid, t>>}]

Stats(u) == <<u.score, u.attempts, u.correct, u.currentStreak, u.maxStreak>>

\* ------------------------------------------------------------------- tasks
\* a handler suspended at an await; the fields a kind does not use are blank
Task(kind, c, pid, map, sid, idx) ==
  [kind |-> kind, chat |-> c, pid |-> pid, map |-> map, sid |-> sid, idx |-> idx]

\* ------------------------------------------------------ puzzle authoring
\* the captions the photo handler is given: the options as (key, text) in
\* caption order, and the letter after answer= (NoKey when absent)
Opt(k, t) == [key |-> k, text |-> t]

AuthoringInputs ==
  { [opts |-> <<Opt("A", "x"), Opt("B", "y")>>, answer |-> "A"],
    [opts |-> <<Opt("A", ""), Opt("B", "x")>>, answer |-> "B"],
    [opts |-> <<Opt("A", ""), Opt("B", "x")>>, answer |-> "A"],
    [opts |-> <<Opt("A", "x"), Opt("B", "y")>>, answer |-> NoKey],
    [opts |-> <<Opt("A", ""), Opt("B", "x")>>, answer |-> NoKey],
    [opts |-> <<Opt("A", "x"), Opt("B", "x")>>, answer |-> "A"] }

\* rawOptions of the photo handler
rawOptions(in) ==
  [i \in 1..Len(in.opts) |->
     [text |-> in.opts[i].text, isAnswer |-> in.opts[i].key = in.answer]]

\* bot.on('photo'): an admin creates a puzzle in a private chat
CreatePuzzle(in) ==
  /\ nextPid' = nextPid + 1
  /\ puzzles' = Append(puzzles,
        [id |-> nextPid + 1, createdAt |-> nextPid + 1,
         puzzleNumber |-> Len(puzzles) + 1,
         options |-> rawOptions(in), postedIn |-> <<>>])
  /\ served' = [served EXCEPT !.log = [c \in Chats |-> <<>>],
                               !.reindexed = FALSE]
  /\ UNCHANGED <<users, groups, battleVars, tasks, msgs, adjusts,
                 submitted>>
  /\ saveData

\* /removepuzzle <id>
RemovePuzzle(id) ==
  /\ id \in PuzzleIds(puzzles)
  /\ puzzles' = RemoveAt(puzzles, IndexOfId(puzzles, id))
  /\ users' = [u \in DOMAIN users |->
        [users[u] EXCEPT
           !.answers = {a \in @ : ~(a[1] = id /\ Truthy(a[2]))},
           !.lastPuzzleId = IF @ = id THEN 0 ELSE @]]
  /\ served' = [served EXCEPT !.log = [c \in Chats |-> <<>>],
                               !.reindexed = FALSE]
  /\ UNCHANGED <<groups, battleVars, tasks, msgs, nextPid, adjusts,
                 submitted>>
  /\ saveData

\* entries.sort(([, a], [, b]) => (a.createdAt || 0) - (b.createdAt || 0)),
\* stable, as positions of pz
RECURSIVE SortByCreatedAt(_, _)
SortByCreatedAt(pz, idx) ==
  IF idx = {} THEN <<>>
  ELSE LET m == CHOOSE i \in idx : \A j \in idx :
                  \/ pz[i].createdAt < pz[j].createdAt
                  \/ (pz[i].createdAt = pz[j].createdAt /\ i <= j)
       IN <<m>> \o SortByCreatedAt(pz, idx \ {m})

\* a group field the record was created without
Undefined == -1

\* /reindexpuzzles that resets the cursors and leaves the numbers alone
ReindexKeepNumbers ==
  /\ groups' = [c \in DOMAIN groups |->
        [groups[c] EXCEPT !.nextPuzzleIndex = 0, !.battleNextPuzzleIndex = 0]]
  /\ served' = [served EXCEPT !.log = [c \in Chats |-> <<>>],
                               !.reindexed = TRUE]
  /\ UNCHANGED <<puzzles, users, battleVars, tasks, msgs, nextPid, adjusts,
                 submitted>>
  /\ saveData

\* /reindexpuzzles
Reindex ==
  /\ LET order == SortByCreatedAt(puzzles, 1..Len(puzzles))
     IN puzzles' = [n \in 1..Len(puzzles) |->
                      [puzzles[order[n]] EXCEPT !.puzzleNumber = n]]
  /\ groups' = [c \in DOMAIN groups |->
        IF groups[c].nextPuzzleIndex > 0 \/ groups[c].battleNextPuzzleIndex > 0
        THEN [groups[c] EXCEPT !.nextPuzzleIndex = 0,
                               !.battleNextPuzzleIndex = 0]
        ELSE groups[c]]
  /\ served' = [served EXCEPT !.log = [c \in Chats |-> <<>>],
                               !.reindexed = TRUE]
  /\ UNCHANGED <<users, battleVars, tasks, msgs, nextPid, adjusts, submitted>>
  /\ saveData

\* /register in a chat
RegisterCmd(c) ==
  /\ IsGroupChat(c)
  /\ c \notin DOMAIN groups
  /\ groups' = addGroup(groups, c)
  /\ UNCHANGED <<puzzles, users, battleVars, tasks, msgs, nextPid, adjusts,
                 submitted, served>>
  /\ saveData

\* the record /addgroup writes: chatId, title, registeredAt and
\* nextPuzzleIndex: 0, no score, attempts or battleNextPuzzleIndex
ManualGroup == [score |-> Undefined, attempts |-> Undefined,
                nextPuzzleIndex |-> 0, battleNextPuzzleIndex |-> Undefined]

\* /addgroup <chatId> by an admin: the record is written over any earlier one
AddGroupCmd(c) ==
  /\ groups' = (c :> ManualGroup) @@ groups
  /\ UNCHANGED <<puzzles, users, battleVars, tasks, msgs, nextPid, adjusts,
                 submitted, served>>
  /\ saveData

\* /remgroup <chatId> by an admin
RemGroupCmd(c) ==
  /\ c \in DOMAIN groups
  /\ groups' = [g \in DOMAIN groups \ {c} |-> groups[g]]
  /\ UNCHANGED <<puzzles, users, battleVars, tasks, msgs, nextPid, adjusts,
                 submitted, served>>
  /\ saveData

\* /adjustscore <userId> <amount>
AdjustAmounts == {76, -5}

AdjustScore(u, amount) ==
  /\ adjusts < MaxAdjust
  /\ u \in DOMAIN users
  /\ users' = [users EXCEPT ![u].score = @ + amount]
  /\ adjusts' = adjusts + 1
  /\ UNCHANGED <<puzzles, groups, battleVars, tasks, msgs, nextPid,
                 submitted, served>>
  /\ saveData

\* /start: nothing but registerUser
StartCmd(u) ==
  /\ u \notin DOMAIN users
  /\ users' = registerUser(users, u)
  /\ UNCHANGED <<puzzles, groups, battleVars, tasks, msgs, nextPid, adjusts,
                 submitted, served>>
  /\ saveData

\* ------------------------------------------------------------ /puzzle
\* match[2] of /puzzle when no number was typed
NoNumber == -1

\* if (puzzleIndex >= totalPuzzles) puzzleIndex = 0
wrapIndex(cur, total) == IF cur >= total THEN 0 ELSE cur

\* the cursor left where it was
advanceIndexStuck(puzzleIndex, total) == puzzleIndex % total

\* the advance dropped while another handler is suspended
advanceIndexLost(puzzleIndex, total) ==
  (IF tasks = <<>> THEN puzzleIndex + 1 ELSE puzzleIndex) % total

\* groupRec.nextPuzzleIndex = (puzzleIndex + 1) % totalPuzzles
advanceIndex(puzzleIndex, total) == (puzzleIndex + 1) % total

\* the common post logic of /puzzle up to `await bot.sendPhoto`: the options
\* are shuffled in place and the handler is suspended on the send
PostPuzzle(us, gs, pi, c, log, file) ==
  \E sh \in ShuffleOutcomes(puzzles[pi].options) :
    /\ disk' = file
    /\ puzzles' = [puzzles EXCEPT ![pi].options = sh]
    /\ tasks' = Append(tasks,
          Task("puzzlePhoto", c, puzzles[pi].id, makeOptionsKeyboard(sh), 0, 0))
    /\ users' = us
    /\ groups' = gs
    /\ served' = log

\* history of the rotation draws, kept only in the runs that switch it on
LogServed(c, id) ==
  IF served.on THEN [served EXCEPT !.log[c] = Append(@, id)] ELSE served

\* bot.onText(/^\/puzzle(@\S+)?\s*(\d*)$/), up to the send
PuzzleRequest(u, c, req) ==
  /\ served.on => Len(served.log[c]) < MaxServes
  /\ LET us1 == registerUser(users, u)
         avail == availablePuzzles(puzzles)
         totalPuzzles == Len(avail)
         hit == {i \in 1..totalPuzzles : puzzles[avail[i]].puzzleNumber = req}
     IN IF totalPuzzles = 0
        THEN /\ users' = us1
             /\ disk' = registerUserSaved(u)
             /\ UNCHANGED <<puzzles, groups, tasks, served>>
        ELSE IF req # NoNumber /\ req # 0
        THEN IF hit = {}
             THEN /\ users' = us1
                  /\ disk' = registerUserSaved(u)
                  /\ UNCHANGED <<puzzles, groups, tasks, served>>
             ELSE PostPuzzle(us1, groups,
                             avail[CHOOSE i \in hit : \A j \in hit : i <= j],
                             c, served, registerUserSaved(u))
        ELSE LET gs1 == addGroup(groups, c)
                 cur == gs1[c].nextPuzzleIndex
                 puzzleIndex == wrapIndex(cur, totalPuzzles)
                 pi == avail[puzzleIndex + 1]
                 us2 == [us1 EXCEPT ![u].lastPuzzleId = puzzles[pi].id]
                 gs2 == [gs1 EXCEPT ![c].nextPuzzleIndex =
                                       advanceIndex(puzzleIndex, totalPuzzles)]
             IN PostPuzzle(us2, gs2, pi, c, LogServed(c, puzzles[pi].id),
                           Doc(puzzles, us2, gs2))
  /\ UNCHANGED <<battleVars, msgs, nextPid, adjusts, submitted>>

\* /puzzle while fewer than MaxTasks handlers are suspended
PuzzleCmd(u, c, req) == Len(tasks) < MaxTasks /\ PuzzleRequest(u, c, req)

\* keyboard messages Telegram holds, all chats together
MsgCount == Len(msgs["g1"]) + Len(msgs["pv"])

\* a posting record of p.postedIn
Posting(c, m, map) == [chatId |-> c, msgId |-> m, postedOptionsMap |-> map]

\* sendPhoto of /puzzle resolved: the posting is pushed on the puzzle object
\* the handler holds (no longer in data.puzzles when it was removed meanwhile)
PuzzleSent(t) ==
  /\ t \in 1..Len(tasks)
  /\ tasks[t].kind = "puzzlePhoto"
  /\ LET c == tasks[t].chat
         m == Len(msgs[c]) + 1
         pi == IndexOfId(puzzles, tasks[t].pid)
     IN /\ msgs' = [msgs EXCEPT ![c] =
                      Append(@, [kind |-> "ANS", n |-> Len(tasks[t].map)])]
        /\ puzzles' = IF pi = 0 THEN puzzles
                      ELSE [puzzles EXCEPT ![pi].postedIn =
                              Append(@, Posting(c, m, tasks[t].map))]
  /\ tasks' = RemoveAt(tasks, t)
  /\ UNCHANGED <<users, groups, battleVars, nextPid, adjusts,
                 submitted, served>>
  /\ saveData

\* sendPhoto of /puzzle rejected: an apology is sent, nothing is recorded
PuzzleSendFailed(t) ==
  /\ t \in 1..Len(tasks)
  /\ tasks[t].kind = "puzzlePhoto"
  /\ tasks' = RemoveAt(tasks, t)
  /\ UNCHANGED <<puzzles, users, groups, battleVars, msgs, nextPid, adjusts,
                 submitted, served, disk>>

\* ------------------------------------------------- standard-mode answers
\* positions of the puzzles with a posting for (chat, message)
PostedAt(pz, c, m) ==
  {i \in 1..Len(pz) : \E j \in 1..Len(pz[i].postedIn) :
      pz[i].postedIn[j].chatId = c /\ pz[i].postedIn[j].msgId = m}

\* p.postedIn.find(pi => chatId and msgId match).postedOptionsMap
PostedEntryMap(p, c, m) ==
  LET j == CHOOSE k \in 1..Len(p.postedIn) :
             /\ p.postedIn[k].chatId = c /\ p.postedIn[k].msgId = m
             /\ \A l \in 1..(k - 1) :
                  ~(p.postedIn[l].chatId = c /\ p.postedIn[l].msgId = m)
  IN p.postedIn[j].postedOptionsMap

\* const alreadyAttempted = !!userRec.answers[puzzle.id]
alreadyAttempted(userRec, pid) == Truthy(AnswerOf(userRec, pid))

\* const isCorrect = correctMoveText && (chosenMoveText === correctMoveText)
isCorrectMove(chosenMoveText, correctMoveText) ==
  correctMoveText # NoText /\ chosenMoveText = correctMoveText

\* Math.round(userRec.currentStreak * STREAK_BONUS_MULTIPLIER)
streakBonus(currentStreak) ==
  MathRound(currentStreak * STREAK_BONUS_NUM, STREAK_BONUS_DEN)

\* scoreChange of a first attempt
scoreChange(userRec, correctMoveText, isCorrect) ==
  IF correctMoveText = NoText THEN 0
  ELSE IF isCorrect THEN SCORE_CORRECT + streakBonus(userRec.currentStreak)
  ELSE SCORE_WRONG

\* the first-attempt branch on the user record
FirstAttempt(userRec, pid, chosenMoveText, correctMoveText, isCorrect) ==
  LET r1 == SetAnswer([userRec EXCEPT !.attempts = @ + 1], pid, chosenMoveText)
      delta == scoreChange(userRec, correctMoveText, isCorrect)
  IN IF correctMoveText = NoText THEN r1
     ELSE IF isCorrect
     THEN [r1 EXCEPT !.correct = @ + 1,
                     !.currentStreak = @ + 1,
                     !.maxStreak = Max(@, r1.currentStreak + 1),
                     !.score = @ + delta]
     ELSE [r1 EXCEPT !.currentStreak = 0, !.score = @ + delta]

\* the practice branch on the user record
PracticeAttempt(userRec, pid, chosenMoveText, isCorrect) ==
  IF isCorrect THEN SetAnswer(userRec, pid, chosenMoveText) ELSE userRec

\* (x || 0) of a number field a record may lack
OrZero(x) == IF x = Undefined THEN 0 ELSE x

\* group scoring of a first attempt
GroupScoring(gs, c, delta, isCorrect) ==
  IF IsGroupChat(c) /\ delta # 0 /\ c \in DOMAIN gs
  THEN [gs EXCEPT ![c].score =
                     OrZero(@) + (IF isCorrect THEN delta ELSE SCORE_WRONG),
                  ![c].attempts = OrZero(@) + 1]
  ELSE gs

\* a handler that replies with nothing written after registerUser
attemptUnsaved(u, practice, isCorrect, us, gs) == registerUserSaved(u)

\* the file when the standard path reaches its replies: the practice branch
\* saves after a correct answer only, the first-attempt branch always
attemptSaved(u, practice, isCorrect, us, gs) ==
  IF practice /\ ~isCorrect THEN registerUserSaved(u)
  ELSE Doc(puzzles, us, gs)

\* bot.on('callback_query') with data ANS|<letter k> on message m of chat c;
\* the two awaits that follow the save send replies and change no state
StdAnswer(u, c, m, k) ==
  /\ m \in 1..Len(msgs[c])
  /\ msgs[c][m].kind = "ANS"
  /\ k \in 1..msgs[c][m].n
  /\ LET us1 == registerUser(users, u)
         found == PostedAt(puzzles, c, m)
     IN IF found = {}
        THEN /\ users' = us1
             /\ disk' = registerUserSaved(u)
             /\ UNCHANGED <<groups, submitted>>
        ELSE LET puzzle == puzzles[CHOOSE i \in found : \A j \in found : i <= j]
                 userRec == us1[u]
                 chosenMoveText == PostedEntryMap(puzzle, c, m)[k]
                 correctMoveText == CorrectMoveText(puzzle.options)
                 isCorrect == isCorrectMove(chosenMoveText, correctMoveText)
             IN /\ submitted' = submitted \cup {<<u, puzzle.id>>}
                /\ IF alreadyAttempted(userRec, puzzle.id)
                   THEN /\ users' = [us1 EXCEPT ![u] =
                              PracticeAttempt(userRec, puzzle.id,
                                              chosenMoveText, isCorrect)]
                        /\ UNCHANGED groups
                        /\ disk' = attemptSaved(u, TRUE, isCorrect,
                                                users', groups')
                   ELSE /\ userRec.attempts - userRec.correct < MaxAttempts
                        /\ users' = [us1 EXCEPT ![u] =
                              FirstAttempt(userRec, puzzle.id, chosenMoveText,
                                           correctMoveText, isCorrect)]
                        /\ groups' = GroupScoring(groups, c,
                              scoreChange(userRec, correctMoveText, isCorrect),
                              isCorrect)
                        /\ disk' = attemptSaved(u, FALSE, isCorrect,
                                                users', groups')
  /\ UNCHANGED <<puzzles, battleVars, tasks, msgs, nextPid, adjusts, served>>

\* ------------------------------------------------------------- battles
\* the part of the state the battle helpers read and write
Cur == [pz |-> puzzles, ss |-> sessions, ab |-> activeBattles, tk |-> tasks,
        dk |-> disk]

\* battle objects still referenced by activeBattles or by a suspended handler
LiveSessions(S) ==
  ({S.ab[c] : c \in Chats} \cup {S.tk[i].sid : i \in 1..Len(S.tk)}) \ {0}

\* the new state; battle objects nothing refers to any more are dropped
Commit(S) ==
  /\ puzzles' = S.pz
  /\ activeBattles' = S.ab
  /\ tasks' = S.tk
  /\ sessions' = [sid \in LiveSessions(S) |-> S.ss[sid]]
  /\ disk' = S.dk

\* entry of battle.puzzles: answeredBy is <<>> or <<uid, letter>>,
\* postedOptionsMap is <<>> until postNextBattlePuzzle sets it
PuzzleState(id) == [id |-> id, answeredBy |-> <<>>, postedOptionsMap |-> <<>>]

\* activeBattles[chatId] && activeBattles[chatId].isActive
IsActiveBattle(S, c) == S.ab[c] # 0 /\ S.ss[S.ab[c]].isActive

\* puzzle.postedIn.findIndex(chatId and msgId match) and splice, once
RECURSIVE SpliceFirst(_, _, _)
SpliceFirst(postedIn, c, m) ==
  IF postedIn = <<>> THEN <<>>
  ELSE IF Head(postedIn).chatId = c /\ Head(postedIn).msgId = m
  THEN Tail(postedIn)
  ELSE <<Head(postedIn)>> \o SpliceFirst(Tail(postedIn), c, m)

\* the inner loop of endBattle over battle.messageIds
RECURSIVE SpliceAll(_, _, _)
SpliceAll(postedIn, c, messageIds) ==
  IF messageIds = <<>> THEN postedIn
  ELSE SpliceAll(SpliceFirst(postedIn, c, Head(messageIds)), c,
                 Tail(messageIds))

\* scores.sort((a, b) => b.score - a.score): stable, descending
RECURSIVE InsertByScore(_, _)
InsertByScore(sorted, e) ==
  IF sorted = <<>> THEN <<e>>
  ELSE IF Head(sorted).score >= e.score
  THEN <<Head(sorted)>> \o InsertByScore(Tail(sorted), e)
  ELSE <<e>> \o sorted

RECURSIVE SortByScore(_)
SortByScore(entries) ==
  IF entries = <<>> THEN <<>>
  ELSE InsertByScore(SortByScore(SubSeq(entries, 1, Len(entries) - 1)),
                     entries[Len(entries)])

\* Object.entries(battle.scores): one entry per key, in the order of the keys
scoreEntries(battle) ==
  [i \in 1..Len(battle.scoreOrder) |->
     [user |-> battle.scoreOrder[i],
      score |-> battle.scores[battle.scoreOrder[i]]]]

\* scores.filter(s => s.score === winnerScore), winnerScore = scores[0].score
winnersOf(scores) ==
  LET winnerScore == scores[1].score
      IsWinner(s) == s.score = winnerScore
  IN SelectSeq(scores, IsWinner)

\* the closing message of endBattle: the winners and the scoreboard, both
\* empty in "No players participated in this battle."
closingMessage(battle) ==
  LET scores == SortByScore(scoreEntries(battle))
  IN IF scores = <<>> THEN [winners |-> <<>>, scoreboard |-> <<>>]
     ELSE [winners |-> winnersOf(scores), scoreboard |-> scores]

\* endBattle(chatId) up to its await: the postings of the battle's messages
\* are removed from the batch puzzles and the file is written, the battle is
\* marked inactive and the handler is suspended on the closing message
endBattle(S, c) ==
  IF ~IsActiveBattle(S, c) THEN S
  ELSE LET sid == S.ab[c]
           battle == S.ss[sid]
           ids == {battle.puzzles[i].id : i \in 1..Len(battle.puzzles)}
           cleaned == [i \in 1..Len(S.pz) |->
                         IF S.pz[i].id \in ids
                         THEN [S.pz[i] EXCEPT !.postedIn =
                                 SpliceAll(@, c, battle.messageIds)]
                         ELSE S.pz[i]]
       IN [S EXCEPT
             !.pz = cleaned,
             !.dk = Doc(cleaned, users, groups),
             !.ss[sid].isActive = FALSE,
             !.tk = Append(@, Task("endMsg", c, 0, closingMessage(battle),
                                   sid, 0))]

\* postNextBattlePuzzle(chatId) up to its await, one result per shuffle
postNextBattlePuzzle(S, c) ==
  IF ~IsActiveBattle(S, c) THEN {S}
  ELSE LET sid == S.ab[c]
           puzzleIndex == S.ss[sid].currentPuzzleIndex
       IN IF puzzleIndex >= BATTLE_PUZZLE_COUNT THEN {endBattle(S, c)}
          ELSE LET puzzleId == S.ss[sid].puzzles[puzzleIndex + 1].id
                   pi == IndexOfId(S.pz, puzzleId)
               IN IF pi = 0 \/ ~IsValidPuzzle(S.pz[pi]) THEN {endBattle(S, c)}
                  ELSE {[S EXCEPT
                           !.pz[pi].options = sh,
                           !.ss[sid].puzzles[puzzleIndex + 1].postedOptionsMap =
                              makeOptionsKeyboard(sh),
                           !.tk = Append(@, Task("battlePhoto", c, puzzleId,
                                    makeOptionsKeyboard(sh), sid, puzzleIndex))]
                        : sh \in ShuffleOutcomes(S.pz[pi].options)}

\* if (startIndex >= totalPuzzles) startIndex = 0
wrapStart(startIndex, total) == IF startIndex >= total THEN 0 ELSE startIndex

\* the selection loop of /battle: ids at (startIndex + i) % totalPuzzles
selectedPuzzles(pz, valid, startIndex) ==
  [i \in 1..BATTLE_PUZZLE_COUNT |->
     PuzzleState(pz[valid[((startIndex + i - 1) % Len(valid)) + 1]].id)]

\* the next cursor without the wrap-around
advanceBattleIndexNoWrap(startIndex, total) ==
  startIndex + BATTLE_PUZZLE_COUNT

\* groupRec.battleNextPuzzleIndex = (startIndex + 5) % totalPuzzles
advanceBattleIndex(startIndex, total) ==
  (startIndex + BATTLE_PUZZLE_COUNT) % total

NewBattle(c, sel) ==
  [chatId |-> c, puzzles |-> sel, currentPuzzleIndex |-> 0,
   scores |-> [u \in Users |-> 0], scoreOrder |-> <<>>, isActive |-> TRUE,
   messageIds |-> <<>>]

\* both cursors of the group moved together
setBothCursors(gs, c, v) ==
  [gs EXCEPT ![c].battleNextPuzzleIndex = v, ![c].nextPuzzleIndex = v]

\* groupRec.battleNextPuzzleIndex = v
setBattleCursor(gs, c, v) == [gs EXCEPT ![c].battleNextPuzzleIndex = v]

\* bot.onText(/^\/battle(@\S+)?$/) up to `await bot.sendMessage`
BattleCmd(c) ==
  IF ~IsGroupChat(c) \/ IsActiveBattle(Cur, c)
  THEN UNCHANGED vars
  ELSE LET gs1 == addGroup(groups, c)
           valid == validPuzzles(puzzles)
           totalPuzzles == Len(valid)
           startIndex == wrapStart(gs1[c].battleNextPuzzleIndex, totalPuzzles)
       IN IF totalPuzzles < BATTLE_PUZZLE_COUNT
             \/ gs1[c].battleNextPuzzleIndex = Undefined
          THEN /\ groups' = gs1
               /\ UNCHANGED <<puzzles, users, battleVars, tasks, msgs, nextPid,
                              adjusts, submitted, served>>
               /\ saveData
          ELSE /\ groups' = setBattleCursor(gs1, c,
                               advanceBattleIndex(startIndex, totalPuzzles))
               /\ nextSid' = nextSid + 1
               /\ Commit([Cur EXCEPT
                    !.dk = Doc(puzzles, users,
                               setBattleCursor(gs1, c,
                                 advanceBattleIndex(startIndex, totalPuzzles))),
                    !.ss = (nextSid + 1 :>
                              NewBattle(c, selectedPuzzles(puzzles, valid,
                                                           startIndex))) @@ @,
                    !.ab[c] = nextSid + 1,
                    !.tk = Append(@, Task("battleStart", c, 0, <<>>, 0, 0))])
               /\ UNCHANGED <<users, msgs, nextPid, adjusts, submitted, served,
                              sessMsgs>>

\* the state with the suspended handler t resumed
Resume(t) == [Cur EXCEPT !.tk = RemoveAt(@, t)]

IsTask(t, kind) == t \in 1..Len(tasks) /\ tasks[t].kind = kind

\* the start message is sent: /battle goes on to postNextBattlePuzzle
BattleStartSent(t) ==
  /\ IsTask(t, "battleStart")
  /\ \E S \in postNextBattlePuzzle(Resume(t), tasks[t].chat) : Commit(S)
  /\ UNCHANGED <<users, groups, msgs, nextPid, nextSid, adjusts, submitted,
                 served, sessMsgs>>

\* the start message is rejected: the handler ends there, nothing is posted
BattleStartFailed(t) ==
  /\ IsTask(t, "battleStart")
  /\ Commit(Resume(t))
  /\ UNCHANGED <<users, groups, msgs, nextPid, nextSid, adjusts, submitted,
                 served, sessMsgs>>

\* sendPhoto of a battle puzzle resolved: the posting is pushed on the
\* puzzle, the message id on the battle object the handler holds
BattlePhotoSent(t) ==
  /\ IsTask(t, "battlePhoto")
  /\ LET c == tasks[t].chat
         sid == tasks[t].sid
         m == Len(msgs[c]) + 1
         pi == IndexOfId(puzzles, tasks[t].pid)
         S1 == Resume(t)
         posted == [S1.pz EXCEPT ![pi].postedIn =
                      Append(@, Posting(c, m, tasks[t].map))]
         S2 == IF pi = 0 THEN S1
               ELSE [S1 EXCEPT !.pz = posted,
                               !.dk = Doc(posted, users, groups)]
     IN /\ msgs' = [msgs EXCEPT ![c] =
                      Append(@, [kind |-> "BATTL", n |-> Len(tasks[t].map)])]
        /\ sessMsgs' = [sessMsgs EXCEPT !.posted =
                          @ \cup {<<sid, c, m, tasks[t].idx>>}]
        /\ Commit([S2 EXCEPT !.ss[sid].messageIds = Append(@, m)])
  /\ UNCHANGED <<users, groups, nextPid, nextSid, adjusts, submitted, served>>

\* sendPhoto of a battle puzzle rejected: endBattle(chatId)
BattlePhotoFailed(t) ==
  /\ IsTask(t, "battlePhoto")
  /\ Commit(endBattle(Resume(t), tasks[t].chat))
  /\ UNCHANGED <<users, groups, msgs, nextPid, nextSid, adjusts, submitted,
                 served, sessMsgs>>

\* an entry of the history of closing messages
Closing(t, sent) ==
  [sid |-> tasks[t].sid, chat |-> tasks[t].chat, sent |-> sent,
   winners |-> tasks[t].map.winners, scoreboard |-> tasks[t].map.scoreboard]

\* the closing message of endBattle is sent: delete activeBattles[chatId]
EndMsgSent(t) ==
  /\ IsTask(t, "endMsg")
  /\ Commit([Resume(t) EXCEPT !.ab[tasks[t].chat] = 0])
  /\ sessMsgs' = [sessMsgs EXCEPT !.closed = Append(@, Closing(t, TRUE))]
  /\ UNCHANGED <<users, groups, msgs, nextPid, nextSid, adjusts, submitted,
                 served>>

\* the closing message is rejected: the entry stays, inactive
EndMsgFailed(t) ==
  /\ IsTask(t, "endMsg")
  /\ Commit(Resume(t))
  /\ sessMsgs' = [sessMsgs EXCEPT !.closed = Append(@, Closing(t, FALSE))]
  /\ UNCHANGED <<users, groups, msgs, nextPid, nextSid, adjusts, submitted,
                 served>>

\* the acceptance test without the look at answeredBy
BattleAcceptsAnswered(c) ==
  /\ IsActiveBattle(Cur, c)
  /\ LET battle == sessions[activeBattles[c]]
         puzzleIndex == battle.currentPuzzleIndex
     IN /\ puzzleIndex < Len(battle.puzzles)
        /\ LET currentPuzzleState == battle.puzzles[puzzleIndex + 1]
               pi == IndexOfId(puzzles, currentPuzzleState.id)
           IN /\ currentPuzzleState.postedOptionsMap # <<>>
              /\ pi # 0
              /\ CorrectMoveText(puzzles[pi].options) # NoText

\* the part of the BATTL branch that decides whether the click is accepted:
\* a live battle whose current puzzle state, options map and puzzle exist,
\* which nobody answered yet and whose puzzle has a non-empty answer key
BattleAccepts(c) ==
  /\ IsActiveBattle(Cur, c)
  /\ LET battle == sessions[activeBattles[c]]
         puzzleIndex == battle.currentPuzzleIndex
     IN /\ puzzleIndex < Len(battle.puzzles)
        /\ LET currentPuzzleState == battle.puzzles[puzzleIndex + 1]
               pi == IndexOfId(puzzles, currentPuzzleState.id)
           IN /\ currentPuzzleState.postedOptionsMap # <<>>
              /\ pi # 0
              /\ currentPuzzleState.answeredBy = <<>>
              /\ CorrectMoveText(puzzles[pi].options) # NoText

\* the text of the first button, whatever the letter
chosenFirstText(map, k) == map[1]

\* currentPuzzleState.postedOptionsMap[chosenKey], undefined for a letter the
\* map does not have
chosenMoveText(map, k) == IF k \in 1..Len(map) THEN map[k] ELSE NoText

\* a click on button k of the battle message m of chat c by user u, up to
\* `await bot.answerCallbackQuery`
BattleClick(u, c, m, k) ==
  /\ m \in 1..Len(msgs[c])
  /\ msgs[c][m].kind = "BATTL"
  /\ k \in 1..msgs[c][m].n
  /\ users' = registerUser(users, u)
  /\ IF ~BattleAccepts(c)
     THEN /\ disk' = registerUserSaved(u)
          /\ UNCHANGED <<puzzles, battleVars, tasks>>
     ELSE LET sid == activeBattles[c]
              battle == sessions[sid]
              puzzleIndex == battle.currentPuzzleIndex
              currentPuzzleState == battle.puzzles[puzzleIndex + 1]
              puzzle == puzzles[IndexOfId(puzzles, currentPuzzleState.id)]
              isCorrect ==
                chosenMoveText(currentPuzzleState.postedOptionsMap, k)
                  = CorrectMoveText(puzzle.options)
          IN /\ Commit([Cur EXCEPT
                  !.dk = registerUserSaved(u),
                  !.ss[sid].puzzles[puzzleIndex + 1].answeredBy = <<u, k>>,
                  !.ss[sid].scores[u] = IF isCorrect THEN @ + 1 ELSE @,
                  !.ss[sid].scoreOrder =
                     IF isCorrect /\ battle.scores[u] = 0
                     THEN Append(@, u) ELSE @,
                  !.tk = Append(@, Task("cbReply", c, currentPuzzleState.id,
                                        <<>>, sid, puzzleIndex))])
             /\ UNCHANGED <<nextSid, sessMsgs>>
  /\ UNCHANGED <<groups, msgs, nextPid, adjusts, submitted, served>>

\* answerCallbackQuery resolved: the handler goes on to the announcement
BattleReplySent(t) ==
  /\ IsTask(t, "cbReply")
  /\ Commit([Cur EXCEPT !.tk[t].kind = "cbAnnounce"])
  /\ UNCHANGED <<users, groups, msgs, nextPid, nextSid, adjusts, submitted,
                 served, sessMsgs>>

\* the announcement is sent: battle.currentPuzzleIndex++ on the battle object
\* the handler holds, then postNextBattlePuzzle(chatId) or endBattle(chatId)
BattleAnnounceSent(t) ==
  /\ IsTask(t, "cbAnnounce")
  /\ LET c == tasks[t].chat
         sid == tasks[t].sid
         S1 == [Resume(t) EXCEPT !.ss[sid].currentPuzzleIndex = @ + 1]
     IN IF S1.ss[sid].currentPuzzleIndex < BATTLE_PUZZLE_COUNT
        THEN \E S2 \in postNextBattlePuzzle(S1, c) : Commit(S2)
        ELSE Commit(endBattle(S1, c))
  /\ UNCHANGED <<users, groups, msgs, nextPid, nextSid, adjusts, submitted,
                 served, sessMsgs>>

\* answerCallbackQuery or the announcement is rejected: the catch of the
\* callback handler logs the error and the handler ends
BattleCallbackFailed(t) ==
  /\ IsTask(t, "cbReply") \/ IsTask(t, "cbAnnounce")
  /\ Commit(Resume(t))
  /\ UNCHANGED <<users, groups, msgs, nextPid, nextSid, adjusts, submitted,
                 served, sessMsgs>>

\* ------------------------------------------- the standard-mode machine
EmptyMap == [x \in {} |-> 0]

\* the score of a user after s first-attempt correct answers in a row
RECURSIVE ScoreAfter(_)
ScoreAfter(s) ==
  IF s = 0 THEN 0 ELSE ScoreAfter(s - 1) + SCORE_CORRECT + streakBonus(s - 1)

\* a user of the loaded data file who solved s puzzles in a row, all of them
\* removed by an admin since (which purges the answers and nothing else)
LoadedUser(s) ==
  [NewUser EXCEPT !.score = ScoreAfter(s), !.attempts = s, !.correct = s,
                  !.currentStreak = s, !.maxStreak = s]

InitCommon ==
  /\ groups = EmptyMap
  /\ activeBattles = [c \in Chats |-> 0]
  /\ sessions = EmptyMap
  /\ tasks = <<>>
  /\ msgs = [c \in Chats |-> <<>>]
  /\ nextSid = 0
  /\ adjusts = 0
  /\ submitted = {}
  /\ sessMsgs = [posted |-> {}, closed |-> <<>>]

\* the scoring runs: the data file holds one bystander, u2, with a streak of
\* 3; u1 is unknown until its first command or click, and is the one who acts
InitScore ==
  /\ InitCommon
  /\ served = [on |-> FALSE, log |-> [c \in Chats |-> <<>>],
              reindexed |-> FALSE]
  /\ puzzles = <<>>
  /\ nextPid = 0
  /\ users = ("u2" :> LoadedUser(3))
  /\ disk = Doc(puzzles, users, groups)

Actors == {"u1"}

NextScore ==
  \/ nextPid < MaxPuzzleIds /\ \E in \in AuthoringInputs : CreatePuzzle(in)
  \/ \E id \in 1..MaxPuzzleIds : RemovePuzzle(id)
  \/ \E u \in Actors : StartCmd(u)
  \/ \E u \in Actors, c \in Chats, req \in {NoNumber} \cup 0..MaxPuzzleIds :
       PuzzleCmd(u, c, req)
  \/ MsgCount < MaxMsgs /\ \E t \in 1..MaxTasks : PuzzleSent(t)
  \/ \E t \in 1..MaxTasks : PuzzleSendFailed(t)
  \/ \E u \in Actors, c \in Chats, m \in 1..MaxMsgs, k \in 1..2 :
       StdAnswer(u, c, m, k)

SpecScore == InitScore /\ [][NextScore]_vars

\* ------------------------------------------------- the streak machine
\* the data file holds u1 with a streak s; an admin creates puzzles, u1 asks
\* for them and answers
InitStreak ==
  /\ InitCommon
  /\ served = [on |-> FALSE, log |-> [c \in Chats |-> <<>>],
              reindexed |-> FALSE]
  /\ puzzles = <<>>
  /\ nextPid = 0
  /\ \E s \in 0..MaxInitStreak : users = ("u1" :> LoadedUser(s))
  /\ disk = Doc(puzzles, users, groups)

NextStreak ==
  \/ nextPid < MaxPuzzleIds /\ \E in \in AuthoringInputs : CreatePuzzle(in)
  \/ \E u \in Actors, req \in {NoNumber, 1} : PuzzleCmd(u, "g1", req)
  \/ MsgCount < MaxMsgs /\ \E t \in 1..MaxTasks : PuzzleSent(t)
  \/ \E u \in Actors, m \in 1..MaxMsgs, k \in 1..2 : StdAnswer(u, "g1", m, k)

SpecStreak == InitStreak /\ [][NextStreak]_vars

\* ------------------------------------------------ the rotation machine
SingleOption == [opts |-> <<Opt("A", "x")>>, answer |-> "A"]

InitRotation ==
  /\ InitCommon
  /\ served = [on |-> TRUE, log |-> [c \in Chats |-> <<>>],
              reindexed |-> FALSE]
  /\ puzzles = <<>>
  /\ nextPid = 0
  /\ users = EmptyMap
  /\ disk = Doc(puzzles, users, groups)

NextRotation ==
  \/ nextPid < MaxCatalog /\ CreatePuzzle(SingleOption)
  \/ \E id \in 1..MaxCatalog : RemovePuzzle(id)
  \/ Reindex
  \/ \E u \in Actors, c \in Chats, req \in {NoNumber, 0, 1} :
       PuzzleCmd(u, c, req)
  \/ MsgCount < MaxRotMsgs /\ \E t \in 1..MaxTasks : PuzzleSent(t)
  \/ \E t \in 1..MaxTasks : PuzzleSendFailed(t)

SpecRotation == InitRotation /\ [][NextRotation]_vars

\* -------------------------------------------------- the battle machine
\* the loaded data file: the last puzzle with two options, the others with one
LoadedPuzzle(n) ==
  [id |-> n, createdAt |-> n, puzzleNumber |-> n,
   options |-> IF n = 5
               THEN rawOptions([opts |-> <<Opt("A", "x"), Opt("B", "y")>>,
                                answer |-> "A"])
               ELSE rawOptions(SingleOption),
   postedIn |-> <<>>]

InitBattle ==
  /\ InitCommon
  /\ served = [on |-> FALSE, log |-> [c \in Chats |-> <<>>],
              reindexed |-> FALSE]
  /\ puzzles = [n \in 1..BATTLE_PUZZLE_COUNT |-> LoadedPuzzle(n)]
  /\ nextPid = BATTLE_PUZZLE_COUNT
  /\ users = ("u1" :> LoadedUser(3))
  /\ disk = Doc(puzzles, users, groups)

NextBattle ==
  \/ /\ nextSid < MaxSessions
     /\ Len(tasks) < MaxBattleTasks
     /\ \E c \in Chats : BattleCmd(c)
  \/ \E t \in 1..MaxBattleTasks : BattleStartSent(t)
  \/ \E t \in 1..MaxBattleTasks : BattleStartFailed(t)
  \/ \E t \in 1..MaxBattleTasks : BattlePhotoSent(t)
  \/ \E t \in 1..MaxBattleTasks : BattlePhotoFailed(t)
  \/ \E t \in 1..MaxBattleTasks : EndMsgSent(t)
  \/ \E t \in 1..MaxBattleTasks : EndMsgFailed(t)
  \/ /\ Len(tasks) < MaxBattleTasks
     /\ \E u \in Users, c \in Chats, m \in 1..MaxBattleMsgs, k \in 1..2 :
          BattleClick(u, c, m, k)
  \/ \E t \in 1..MaxBattleTasks : BattleReplySent(t)
  \/ \E t \in 1..MaxBattleTasks : BattleAnnounceSent(t)
  \/ \E t \in 1..MaxBattleTasks : BattleCallbackFailed(t)

SpecBattle == InitBattle /\ [][NextBattle]_vars

\* a call to Telegram a handler is suspended on resolves or is rejected
Settle(t) ==
  \/ BattleStartSent(t) \/ BattleStartFailed(t)
  \/ BattlePhotoSent(t) \/ BattlePhotoFailed(t)
  \/ EndMsgSent(t) \/ EndMsgFailed(t)
  \/ BattleReplySent(t) \/ BattleAnnounceSent(t) \/ BattleCallbackFailed(t)

\* somebody presses a button of a battle message
Submission ==
  /\ Len(tasks) < MaxBattleTasks
  /\ \E u \in Users, c \in Chats, m \in 1..MaxBattleMsgs, k \in 1..2 :
       BattleClick(u, c, m, k)

\* the battle machine with its scheduling: every pending call settles, and a
\* posted battle puzzle that accepts a submission receives one
SpecBattleFair ==
  /\ SpecBattle
  /\ \A t \in 1..MaxBattleTasks : WF_vars(Settle(t))
  /\ SF_vars(Submission)

\* --------------------------------------------- the battle-start machine
\* a puzzle of the data file whose caption had no answer= line
UnansweredPuzzle(n) ==
  [LoadedPuzzle(n) EXCEPT
     !.options = rawOptions([opts |-> <<Opt("A", "x")>>, answer |-> NoKey])]

\* the data files the start runs begin with: MinStartCatalog..MaxStartCatalog
\* valid puzzles, or the largest of them with puzzle 2 left without answer
StartCatalogs ==
  {[n \in 1..S |-> LoadedPuzzle(n)] : S \in MinStartCatalog..MaxStartCatalog}
    \cup {[n \in 1..MaxStartCatalog |->
             IF n = 2 THEN UnansweredPuzzle(n) ELSE LoadedPuzzle(n)]}

\* the group is unknown, or known with any battle cursor a catalog that
\* shrank since can have left behind
StartGroups ==
  {EmptyMap} \cup
  {("g1" :> [NewGroup EXCEPT !.battleNextPuzzleIndex = cur])
     : cur \in 0..MaxStartCatalog}

InitStart ==
  /\ activeBattles = [c \in Chats |-> 0]
  /\ sessions = EmptyMap
  /\ tasks = <<>>
  /\ msgs = [c \in Chats |-> <<>>]
  /\ nextSid = 0
  /\ adjusts = 0
  /\ submitted = {}
  /\ sessMsgs = [posted |-> {}, closed |-> <<>>]
  /\ served = [on |-> FALSE, log |-> [c \in Chats |-> <<>>],
              reindexed |-> FALSE]
  /\ users = EmptyMap
  /\ puzzles \in StartCatalogs
  /\ nextPid = Len(puzzles)
  /\ groups \in StartGroups
  /\ disk = Doc(puzzles, users, groups)

NextStart ==
  \/ /\ nextSid < MaxStartSessions
     /\ Len(tasks) < MaxBattleTasks
     /\ \E c \in Chats : BattleCmd(c)
  \/ \E t \in 1..MaxBattleTasks : BattleStartSent(t)
  \/ \E t \in 1..MaxBattleTasks : BattleStartFailed(t)
  \/ \E t \in 1..MaxBattleTasks : BattlePhotoSent(t)
  \/ \E t \in 1..MaxBattleTasks : BattlePhotoFailed(t)
  \/ \E t \in 1..MaxBattleTasks : EndMsgSent(t)
  \/ \E t \in 1..MaxBattleTasks : EndMsgFailed(t)
  \/ \E id \in 1..MaxRemoved : RemovePuzzle(id)

SpecStart == InitStart /\ [][NextStart]_vars

\* -------------------------------------------------- the catalog machine
\* further captions the photo handler accepts: two options with the same
\* letter, an answer= letter no option has, and no option part at all
CatalogInputs ==
  AuthoringInputs \cup
  { [opts |-> <<Opt("A", "x"), Opt("A", "y")>>, answer |-> "A"],
    [opts |-> <<Opt("A", "x"), Opt("B", "y")>>, answer |-> "C"],
    [opts |-> <<>>, answer |-> "A"] }

InitCatalog ==
  /\ InitCommon
  /\ served = [on |-> FALSE, log |-> [c \in Chats |-> <<>>],
               reindexed |-> FALSE]
  /\ puzzles = <<>>
  /\ nextPid = 0
  /\ users = EmptyMap
  /\ disk = Doc(puzzles, users, groups)

NextCatalog ==
  \/ nextPid < MaxAuthored /\ \E in \in CatalogInputs : CreatePuzzle(in)
  \/ \E id \in 1..MaxAuthored : RemovePuzzle(id)
  \/ Reindex

SpecCatalog == InitCatalog /\ [][NextCatalog]_vars

\* ---------------------------------------------------- the mixed machine
\* standard mode, battles and the admin commands side by side, on the data
\* file of the battle runs; u1 is the one who acts, and asks for a puzzle
\* that is not posted anywhere
InitMixed ==
  /\ InitCommon
  /\ served = [on |-> FALSE, log |-> [c \in Chats |-> <<>>],
               reindexed |-> FALSE]
  /\ puzzles = [n \in 1..BATTLE_PUZZLE_COUNT |-> LoadedPuzzle(n)]
  /\ nextPid = BATTLE_PUZZLE_COUNT
  /\ users = ("u1" :> LoadedUser(3))
  /\ disk = Doc(puzzles, users, groups)

NextMixed ==
  \/ \E id \in 1..MaxRemoved : RemovePuzzle(id)
  \/ Reindex
  \/ \E u \in Actors, amount \in AdjustAmounts : AdjustScore(u, amount)
  \/ \E u \in Actors, req \in {BATTLE_PUZZLE_COUNT - 1, BATTLE_PUZZLE_COUNT} :
       /\ \A i \in 1..Len(puzzles) :
            puzzles[i].puzzleNumber = req => puzzles[i].postedIn = <<>>
       /\ PuzzleCmd(u, "g1", req)
  \/ MsgCount < MaxMixedMsgs /\ \E t \in 1..MaxTasks : PuzzleSent(t)
  \/ \E t \in 1..MaxTasks : PuzzleSendFailed(t)
  \/ \E u \in Actors, m \in 1..MaxMixedMsgs, k \in 1..2 :
       StdAnswer(u, "g1", m, k)
  \/ /\ nextSid < MaxSessions
     /\ Len(tasks) < MaxTasks
     /\ BattleCmd("g1")
  \/ \E t \in 1..MaxTasks : BattleStartSent(t)
  \/ \E t \in 1..MaxTasks : BattleStartFailed(t)
  \/ MsgCount < MaxMixedMsgs /\ \E t \in 1..MaxTasks : BattlePhotoSent(t)
  \/ \E t \in 1..MaxTasks : BattlePhotoFailed(t)
  \/ \E t \in 1..MaxTasks : EndMsgSent(t)
  \/ \E t \in 1..MaxTasks : EndMsgFailed(t)
  \/ /\ Len(tasks) < MaxTasks
     /\ \E u \in Actors, m \in 1..MaxMixedMsgs, k \in 1..2 :
          BattleClick(u, "g1", m, k)
  \/ \E t \in 1..MaxTasks : BattleReplySent(t)
  \/ \E t \in 1..MaxTasks : BattleAnnounceSent(t)
  \/ \E t \in 1..MaxTasks : BattleCallbackFailed(t)

SpecMixed == InitMixed /\ [][NextMixed]_vars

\* ---------------------------------------------------- the group machine
\* the groups of the loaded data file: none, or g1 with any pair of cursors
GroupFiles ==
  {EmptyMap} \cup
  {("g1" :> [NewGroup EXCEPT !.nextPuzzleIndex = a,
                             !.battleNextPuzzleIndex = b])
     : a, b \in 0..MaxCursor}

InitGroups ==
  /\ activeBattles = [c \in Chats |-> 0]
  /\ sessions = EmptyMap
  /\ tasks = <<>>
  /\ msgs = [c \in Chats |-> <<>>]
  /\ nextSid = 0
  /\ adjusts = 0
  /\ submitted = {}
  /\ sessMsgs = [posted |-> {}, closed |-> <<>>]
  /\ served = [on |-> FALSE, log |-> [c \in Chats |-> <<>>],
               reindexed |-> FALSE]
  /\ users = EmptyMap
  /\ puzzles = [n \in 1..MaxGroupCatalog |-> LoadedPuzzle(n)]
  /\ nextPid = MaxGroupCatalog
  /\ groups \in GroupFiles
  /\ disk = Doc(puzzles, users, groups)

\* the admin registers, overwrites and removes groups and reindexes; u1 asks
\* for puzzles and answers them; /battle is refused for want of puzzles but
\* registers the group
NextGroups ==
  \/ \E c \in Chats : AddGroupCmd(c)
  \/ \E c \in Chats : RemGroupCmd(c)
  \/ \E c \in Chats : RegisterCmd(c)
  \/ Reindex
  \/ \E id \in 1..MaxRemoved : RemovePuzzle(id)
  \/ \E u \in Actors, c \in Chats, req \in {NoNumber, 1} :
       PuzzleCmd(u, c, req)
  \/ MsgCount < MaxRotMsgs /\ \E t \in 1..MaxTasks : PuzzleSent(t)
  \/ \E t \in 1..MaxTasks : PuzzleSendFailed(t)
  \/ \E u \in Actors, c \in Chats, m \in 1..MaxRotMsgs, k \in 1..2 :
       StdAnswer(u, c, m, k)
  \/ \E c \in Chats : BattleCmd(c)

SpecGroups == InitGroups /\ [][NextGroups]_vars

\* ---------------------------------------------------- the title machine
\* PLAYER_TITLES, in the order of the source (the emoji of the titles left out)
PLAYER_TITLES == <<
  [score |-> 3500, title |-> "Cosmic Grandmaster"],
  [score |-> 3000, title |-> "Immortal God-King"],
  [score |-> 2500, title |-> "Alpha Zero Engine"],
  [score |-> 2000, title |-> "World Champion"],
  [score |-> 1800, title |-> "International Master"],
  [score |-> 1500, title |-> "FIDE Master"],
  [score |-> 1200, title |-> "Elite Tactics Expert"],
  [score |-> 800, title |-> "Grand Strategist"],
  [score |-> 400, title |-> "Puzzle Specialist"],
  [score |-> 200, title |-> "Rook Roller"],
  [score |-> 100, title |-> "Pawn Pusher"],
  [score |-> 50, title |-> "Pusher"] >>

\* the scan of getPlayerTitle from entry i of the table on
RECURSIVE titleScan(_, _)
titleScan(score, i) ==
  IF i > Len(PLAYER_TITLES) THEN "Unranked"
  ELSE IF score >= PLAYER_TITLES[i].score THEN PLAYER_TITLES[i].title
  ELSE titleScan(score, i + 1)

\* a scan that stops at the last entry the score reaches, not the first
getPlayerTitleLowest(score) ==
  IF score >= PLAYER_TITLES[Len(PLAYER_TITLES)].score
  THEN PLAYER_TITLES[Len(PLAYER_TITLES)].title
  ELSE "Unranked"

getPlayerTitle(score) == titleScan(score, 1)

\* /stats: registerUser, then the reply with the title and the score of the
\* sender (a message without buttons)
StatsCmd(u, c) ==
  /\ users' = registerUser(users, u)
  /\ msgs' = [msgs EXCEPT ![c] = Append(@,
                [kind |-> "STATS", n |-> 0,
                 title |-> getPlayerTitle(users'[u].score),
                 score |-> users'[u].score])]
  /\ disk' = registerUserSaved(u)
  /\ UNCHANGED <<puzzles, groups, battleVars, tasks, nextPid, adjusts,
                 submitted, served>>

\* the scores of the user of the loaded data file: every threshold and its
\* two neighbours, zero and a negative score
TitleScores ==
  {0, -16} \cup
  UNION {{PLAYER_TITLES[i].score - 1, PLAYER_TITLES[i].score,
          PLAYER_TITLES[i].score + 1} : i \in 1..Len(PLAYER_TITLES)}

InitTitle ==
  /\ activeBattles = [c \in Chats |-> 0]
  /\ sessions = EmptyMap
  /\ tasks = <<>>
  /\ msgs = [c \in Chats |-> <<>>]
  /\ nextSid = 0
  /\ adjusts = 0
  /\ submitted = {}
  /\ sessMsgs = [posted |-> {}, closed |-> <<>>]
  /\ served = [on |-> FALSE, log |-> [c \in Chats |-> <<>>],
               reindexed |-> FALSE]
  /\ puzzles = <<>>
  /\ nextPid = 0
  /\ groups = EmptyMap
  /\ \E s \in TitleScores :
       users = ("u1" :> [registerUser(EmptyMap, "u1")["u1"] EXCEPT !.score = s])
  /\ disk = Doc(puzzles, users, groups)

\* the users ask for their stats, the admin adjusts a score
NextTitle ==
  \/ MsgCount < MaxTitleMsgs /\ \E u \in Users, c \in Chats : StatsCmd(u, c)
  \/ \E u \in Users, amount \in AdjustAmounts : AdjustScore(u, amount)

SpecTitle == InitTitle /\ [][NextTitle]_vars

\* ----------------------------------------------------- the load machine
\* a string field the document does not have
Absent == "<absent>"

\* the user loop of loadData: score, lastPuzzleId (null is 0), currentStreak
\* and maxStreak are filled when undefined
loadUser(rec) ==
  [rec EXCEPT !.score = OrZero(@), !.lastPuzzleId = OrZero(@),
              !.currentStreak = OrZero(@), !.maxStreak = OrZero(@)]

\* the group loop of loadData
loadGroup(rec) ==
  [rec EXCEPT !.score = OrZero(@), !.attempts = OrZero(@),
              !.nextPuzzleIndex = OrZero(@),
              !.battleNextPuzzleIndex = OrZero(@)]

\* !p.photoFileId || !p.title || !p.options || p.options.length === 0
isIncomplete(p) == p.photoFileId = "" \/ p.title = "" \/ Len(p.options) = 0

\* p.answerKey && p.options.length > 0 && p.options[0].key
hasLegacyKey(p) ==
  /\ p.answerKey # NoKey
  /\ Len(p.options) > 0
  /\ "key" \in DOMAIN p.options[1]

\* p.options.map(opt => ({text, isAnswer: opt.key === p.answerKey})) and
\* delete p.answerKey
migrateAnswerKey(p) ==
  IF hasLegacyKey(p)
  THEN [p EXCEPT !.options = [i \in 1..Len(p.options) |->
                                [text |-> p.options[i].text,
                                 isAnswer |-> p.options[i].key = p.answerKey]],
                 !.answerKey = NoKey]
  ELSE p

\* an expiry that stays in the record
keepExpiry(p) == p

\* delete p.expiresAt
stripExpiry(p) == [p EXCEPT !.expiresAt = Undefined]

\* the migrations of a puzzle that is kept; pos is the place of its key in
\* Object.keys(data.puzzles)
migratePuzzle(p, pos) ==
  LET p1 == migrateAnswerKey(p)
      p2 == [p1 EXCEPT !.createdByUserName = IF @ = Absent THEN "Admin" ELSE @]
      p3 == stripExpiry(p2)
      p4 == [p3 EXCEPT !.hint = IF @ = Absent THEN NoText ELSE @]
  IN [p4 EXCEPT !.puzzleNumber = IF @ = Undefined THEN pos ELSE @]

\* the tests that set `changed` for a puzzle that is kept
puzzleChanged(p) ==
  \/ hasLegacyKey(p)
  \/ p.createdByUserName = Absent
  \/ p.expiresAt # Undefined
  \/ p.hint = Absent
  \/ p.puzzleNumber = Undefined

\* the tests that set `changed` for a user or a group record
userChanged(rec) ==
  Undefined \in {rec.score, rec.lastPuzzleId, rec.currentStreak, rec.maxStreak}

groupChanged(rec) ==
  Undefined \in {rec.score, rec.attempts, rec.nextPuzzleIndex,
                 rec.battleNextPuzzleIndex}

\* cleanPuzzles: the puzzles that are kept, migrated, in the order of the keys
RECURSIVE cleanPuzzles(_, _)
cleanPuzzles(pz, pos) ==
  IF pos > Len(pz) THEN <<>>
  ELSE IF isIncomplete(pz[pos]) THEN cleanPuzzles(pz, pos + 1)
  ELSE <<migratePuzzle(pz[pos], pos)>> \o cleanPuzzles(pz, pos + 1)

\* loadData() on the parsed document: data after the migration, and `changed`
loadData(doc) ==
  [data |-> Doc(cleanPuzzles(doc.puzzles, 1),
                [u \in DOMAIN doc.users |-> loadUser(doc.users[u])],
                [c \in DOMAIN doc.groups |-> loadGroup(doc.groups[c])]),
   changed |->
     \/ \E u \in DOMAIN doc.users : userChanged(doc.users[u])
     \/ \E c \in DOMAIN doc.groups : groupChanged(doc.groups[c])
     \/ \E i \in 1..Len(doc.puzzles) :
          isIncomplete(doc.puzzles[i]) \/ puzzleChanged(doc.puzzles[i])]

\* the start of the process: data is what loadData leaves, the file is
\* rewritten when `changed` is set
LoadData ==
  LET loaded == loadData(disk)
  IN /\ puzzles' = loaded.data.puzzles
     /\ users' = loaded.data.users
     /\ groups' = loaded.data.groups
     /\ disk' = IF loaded.changed THEN loaded.data ELSE disk
     /\ UNCHANGED <<battleVars, tasks, msgs, nextPid, adjusts, submitted,
                    served>>

\* options as an old version stored them, and as the photo handler stores them
KeyedOptions == <<[key |-> "A", text |-> "x"], [key |-> "B", text |-> "y"]>>
FlaggedOptions == <<[text |-> "x", isAnswer |-> FALSE],
                    [text |-> "y", isAnswer |-> TRUE]>>

\* puzzle records of a data file, the id left open: with or without a
\* mandatory field, keyed or flagged options, with or without answerKey,
\* with the fields of an old version (expiry, no creator, no hint, no number)
\* or of the current one
FilePuzzles ==
  {[id |-> 0, createdAt |-> 0, postedIn |-> <<>>,
    photoFileId |-> IF lack = "photo" THEN "" ELSE "f",
    title |-> IF lack = "title" THEN "" ELSE "t",
    options |-> IF lack = "options" THEN <<>> ELSE opts,
    answerKey |-> key,
    createdByUserName |-> IF old THEN Absent ELSE "bob",
    expiresAt |-> IF old THEN 7 ELSE Undefined,
    hint |-> IF old THEN Absent ELSE "h",
    puzzleNumber |-> IF old THEN Undefined ELSE 1]
   : lack \in {"none", "photo", "title", "options"},
     opts \in {KeyedOptions, FlaggedOptions},
     key \in {NoKey, "B"},
     old \in BOOLEAN}

\* the catalogs of a data file: the n-th key is the id n
RECURSIVE FileCatalogs(_)
FileCatalogs(n) ==
  IF n = 0 THEN {<<>>}
  ELSE LET shorter == FileCatalogs(n - 1)
       IN shorter \cup
          {Append(pz, [p EXCEPT !.id = n, !.createdAt = n])
             : pz \in {q \in shorter : Len(q) = n - 1}, p \in FilePuzzles}

\* user and group records of a data file: complete, or written by a version
\* that did not have the later fields
FileUsers ==
  {EmptyMap,
   "u1" :> [NewUser EXCEPT !.score = 8, !.attempts = 1, !.correct = 1,
                           !.currentStreak = 1, !.maxStreak = 1],
   "u1" :> [NewUser EXCEPT !.score = Undefined, !.lastPuzzleId = Undefined,
                           !.currentStreak = Undefined,
                           !.maxStreak = Undefined],
   "u1" :> [NewUser EXCEPT !.score = 8, !.attempts = 1, !.correct = 1,
                           !.lastPuzzleId = Undefined,
                           !.currentStreak = Undefined,
                           !.maxStreak = Undefined]}

FileGroups ==
  {EmptyMap,
   "g1" :> [NewGroup EXCEPT !.nextPuzzleIndex = 1],
   "g1" :> ManualGroup,
   "g1" :> [NewGroup EXCEPT !.score = Undefined, !.attempts = Undefined,
                            !.nextPuzzleIndex = Undefined,
                            !.battleNextPuzzleIndex = Undefined]}

InitLoad ==
  /\ InitCommon
  /\ served = [on |-> FALSE, log |-> [c \in Chats |-> <<>>],
               reindexed |-> FALSE]
  /\ puzzles = <<>>
  /\ users = EmptyMap
  /\ nextPid = 0
  /\ disk \in {Doc(pz, us, gs) : pz \in FileCatalogs(MaxFilePuzzles),
                                 us \in FileUsers, gs \in FileGroups}

\* the process starts, and starts again
NextLoad == LoadData

SpecLoad == InitLoad /\ [][NextLoad]_vars

\* ----------------------------------------------------- the race machine
\* the group of the data file: unknown, or known with any cursor, the one a
\* catalog that shrank has left behind included
RaceGroups ==
  {EmptyMap} \cup
  {("g1" :> [NewGroup EXCEPT !.nextPuzzleIndex = cur])
     : cur \in 0..MaxRaceCatalog}

InitRace ==
  /\ activeBattles = [c \in Chats |-> 0]
  /\ sessions = EmptyMap
  /\ tasks = <<>>
  /\ msgs = [c \in Chats |-> <<>>]
  /\ nextSid = 0
  /\ adjusts = 0
  /\ submitted = {}
  /\ sessMsgs = [posted |-> {}, closed |-> <<>>]
  /\ served = [on |-> TRUE, log |-> [c \in Chats |-> <<>>],
               reindexed |-> FALSE]
  /\ users = EmptyMap
  /\ puzzles = [n \in 1..MaxRaceCatalog |-> LoadedPuzzle(n)]
  /\ nextPid = MaxRaceCatalog
  /\ groups \in RaceGroups
  /\ disk = Doc(puzzles, users, groups)

\* the users ask group g1 for puzzles while earlier requests are still being sent, and
\* answer what was posted
NextRace ==
  \/ /\ Len(tasks) < MaxRaceTasks
     /\ \E u \in Users, req \in {NoNumber, 1} : PuzzleRequest(u, "g1", req)
  \/ MsgCount < MaxRaceMsgs /\ \E t \in 1..MaxRaceTasks : PuzzleSent(t)
  \/ \E t \in 1..MaxRaceTasks : PuzzleSendFailed(t)
  \/ \E u \in Users, m \in 1..MaxRaceMsgs, k \in 1..2 :
       StdAnswer(u, "g1", m, k)

SpecRace == InitRace /\ [][NextRace]_vars

\* --------------------------------------------------- the cursor machine
\* the data file of the cursor runs: seven puzzles, puzzle 2 left without
\* answer
CursorCatalog ==
  [n \in 1..(BATTLE_PUZZLE_COUNT + 2) |->
     IF n = 2 THEN UnansweredPuzzle(n) ELSE LoadedPuzzle(n)]

\* a group record that has been scored and drawn from
UsedGroup(a, b) ==
  [score |-> 8, attempts |-> 1, nextPuzzleIndex |-> a,
   battleNextPuzzleIndex |-> b]

\* no group known, or g1 known with its two cursors apart
CursorGroups ==
  {EmptyMap, "g1" :> UsedGroup(1, 3)}

InitCursor ==
  /\ activeBattles = [c \in Chats |-> 0]
  /\ sessions = EmptyMap
  /\ tasks = <<>>
  /\ msgs = [c \in Chats |-> <<>>]
  /\ nextSid = 0
  /\ adjusts = 0
  /\ submitted = {}
  /\ sessMsgs = [posted |-> {}, closed |-> <<>>]
  /\ served = [on |-> TRUE, log |-> [c \in Chats |-> <<>>],
               reindexed |-> FALSE]
  /\ users = EmptyMap
  /\ puzzles = CursorCatalog
  /\ nextPid = Len(puzzles)
  /\ groups \in CursorGroups
  /\ disk = Doc(puzzles, users, groups)

\* u1 asks for puzzles in the group and in private, a battle is started, and
\* the chats are registered by /register and by the admin
NextCursor ==
  \/ \E c \in Chats : PuzzleCmd("u1", c, NoNumber)
  \/ MsgCount < MaxCursorMsgs /\ \E t \in 1..MaxBattleTasks : PuzzleSent(t)
  \/ \E t \in 1..MaxBattleTasks : PuzzleSendFailed(t)
  \/ /\ nextSid < MaxCursorBattles
     /\ Len(tasks) < MaxBattleTasks
     /\ \E c \in Chats : BattleCmd(c)
  \/ \E t \in 1..MaxBattleTasks : BattleStartSent(t)
  \/ \E t \in 1..MaxBattleTasks : BattleStartFailed(t)
  \/ \E t \in 1..MaxBattleTasks : BattlePhotoSent(t)
  \/ \E t \in 1..MaxBattleTasks : BattlePhotoFailed(t)
  \/ \E t \in 1..MaxBattleTasks : EndMsgSent(t)
  \/ \E t \in 1..MaxBattleTasks : EndMsgFailed(t)
  \/ \E c \in Chats : RegisterCmd(c)
  \/ \E c \in Chats : AddGroupCmd(c)

SpecCursor == InitCursor /\ [][NextCursor]_vars

\* ---------------------------------------------------------------- claims
\* id of the puzzle a click on message m of chat c resolves to, 0 when none
TargetId(c, m) ==
  LET found == PostedAt(puzzles, c, m)
  IN IF found = {} THEN 0
     ELSE puzzles[CHOOSE i \in found : \A j \in found : i <= j].id

TargetPuzzle(c, m) == puzzles[IndexOfId(puzzles, TargetId(c, m))]

\* C1: once a user has made a standard-mode submission on a puzzle, every
\* later standard-mode submission of that user on that puzzle leaves the
\* user's score, attemptCount, correctCount, currentStreak and maxStreak
\* unchanged.
C1_IdempotentFirstScoring ==
  [][\A u \in Users, c \in Chats, m \in 1..MaxMsgs, k \in 1..2 :
       (StdAnswer(u, c, m, k) /\ <<u, TargetId(c, m)>> \in submitted)
         => Stats(users'[u]) = Stats(users[u])]_vars

\* text of the option flagged correct, as authored (first flagged option)
DesignatedText(opts) ==
  opts[CHOOSE k \in 1..Len(opts) :
         opts[k].isAnswer /\ \A j \in 1..(k - 1) : ~opts[j].isAnswer].text

\* C2: a first-attempt submission on a puzzle that has a correct option, by
\* a user with currentStreak s, adds 8 + round(0.2*s) = 8 + floor((s+2)/5) to
\* the score and sets currentStreak to s+1 when correct, and adds -16 when
\* wrong.
C2_ScoreDelta ==
  [][\A u \in Users, c \in Chats, m \in 1..MaxMsgs, k \in 1..2 :
       (/\ StdAnswer(u, c, m, k)
        /\ TargetId(c, m) # 0
        /\ <<u, TargetId(c, m)>> \notin submitted
        /\ HasAnswer(TargetPuzzle(c, m).options))
         => LET pre == registerUser(users, u)[u]
                s == pre.currentStreak
                chosen == PostedEntryMap(TargetPuzzle(c, m), c, m)[k]
            IN IF chosen = DesignatedText(TargetPuzzle(c, m).options)
               THEN /\ users'[u].score = pre.score + 8 + ((s + 2) \div 5)
                    /\ users'[u].score = pre.score + 8 + MathRound(2 * s, 10)
                    /\ users'[u].currentStreak = s + 1
               ELSE users'[u].score = pre.score - 16]_vars

\* a rotation draw was made for chat c in this step
DrawStep(c) == served'.log[c] # served.log[c] /\ served'.log[c] # <<>>

\* position of puzzle id in the catalog ordered by puzzleNumber
OrderPos(id) ==
  LET order == availablePuzzles(puzzles)
  IN CHOOSE i \in 1..Len(order) : puzzles[order[i]].id = id

\* C5: with an unchanged catalog of N puzzles, each next-puzzle request of a
\* group serves the puzzle at the group's cursor (a cursor >= N read as 0) in
\* puzzleNumber order and moves the cursor one step with wrap-around; N
\* consecutive requests serve every puzzle exactly once and request N+1
\* serves the same puzzle as request 1.
C5_RotationCoverage ==
  [][\A c \in Chats : DrawStep(c) =>
       LET N == Len(puzzles)
           order == availablePuzzles(puzzles)
           cur == addGroup(groups, c)[c].nextPuzzleIndex
           idx == IF cur >= N THEN 0 ELSE cur
           L == served'.log[c]
           n == Len(L)
       IN /\ L[n] = puzzles[order[idx + 1]].id
          /\ groups'[c].nextPuzzleIndex = (idx + 1) % N
          /\ \A i, j \in 1..n : (i < j /\ j - i < N) => L[i] # L[j]
          /\ n >= N => {L[i] : i \in (n - N + 1)..n} = PuzzleIds(puzzles)
          /\ \A i \in 1..(n - N) : L[i + N] = L[i]
          /\ \A i \in 1..(n - 1) : OrderPos(L[i + 1]) = (OrderPos(L[i]) % N) + 1
    ]_vars

\* a group was served a whole round of a catalog of two or more puzzles, the
\* last of them from the last position, and then the first puzzle again
C5_Witness ==
  \E c \in Chats :
    /\ Len(puzzles) >= 2
    /\ Len(served.log[c]) = Len(puzzles) + 1
    /\ served.log[c][Len(puzzles) + 1] = served.log[c][1]
    /\ c \in DOMAIN groups
    /\ groups[c].nextPuzzleIndex = OrderPos(served.log[c][1]) % Len(puzzles)

\* the battle of chat c is live and still has a current puzzle
HasCurrent(c) ==
  /\ IsActiveBattle(Cur, c)
  /\ sessions[activeBattles[c]].currentPuzzleIndex < BATTLE_PUZZLE_COUNT

\* the entry of battle.puzzles the battle of chat c is at
CurrentState(c) ==
  sessions[activeBattles[c]].puzzles[
    sessions[activeBattles[c]].currentPuzzleIndex + 1]

RECURSIVE SumScores(_, _)
SumScores(scores, us) ==
  IF us = {} THEN 0
  ELSE LET u == CHOOSE x \in us : TRUE
       IN scores[u] + SumScores(scores, us \ {u})

\* indexes (from 1) of the battle's puzzles somebody's answer was accepted for
Answered(battle) ==
  {i \in 1..Len(battle.puzzles) : battle.puzzles[i].answeredBy # <<>>}

\* battle objects that exist before and after the step
Kept == DOMAIN sessions \cap DOMAIN sessions'

\* C3: in every battle at most one submission is ever accepted per puzzle
\* index: an answeredBy entry, once set, never changes, and the points handed
\* out never exceed the answered indexes. Of two clicks for the same index,
\* the first (on a posted, unanswered puzzle) is accepted and the second,
\* handled while the first handler is suspended or later, changes neither
\* scores nor answeredBy nor currentIndex.
C3_BattleSingleWinner ==
  /\ [](\A sid \in DOMAIN sessions :
          SumScores(sessions[sid].scores, Users)
            <= Cardinality(Answered(sessions[sid])))
  /\ [][/\ \A sid \in Kept : \A i \in Answered(sessions[sid]) :
             sessions'[sid].puzzles[i].answeredBy
               = sessions[sid].puzzles[i].answeredBy
        /\ \A u \in Users, c \in Chats, m \in 1..MaxBattleMsgs, k \in 1..2 :
             (BattleClick(u, c, m, k) /\ HasCurrent(c)) =>
               /\ CurrentState(c).answeredBy # <<>> => sessions' = sessions
               /\ (/\ CurrentState(c).answeredBy = <<>>
                   /\ CurrentState(c).postedOptionsMap # <<>>)
                    => /\ activeBattles[c] \in DOMAIN sessions'
                       /\ sessions'[activeBattles[c]].puzzles[
                            sessions[activeBattles[c]].currentPuzzleIndex + 1]
                              .answeredBy = <<u, k>>
       ]_vars

\* the first user's handler is still suspended on a messaging call, its
\* answer to the first puzzle recorded, and another user has clicked since
C3_Witness ==
  \E t \in 1..Len(tasks) :
    /\ tasks[t].kind \in {"cbReply", "cbAnnounce"}
    /\ tasks[t].idx = 0
    /\ sessions[tasks[t].sid].currentPuzzleIndex = 0
    /\ sessions[tasks[t].sid].puzzles[1].answeredBy = <<"u1", 1>>
    /\ sessions[tasks[t].sid].scores = [u \in Users |->
                                          IF u = "u1" THEN 1 ELSE 0]
    /\ "u2" \in DOMAIN users

\* C4: every accepted battle submission is followed by one increment of the
\* battle's currentIndex, also when the reply or the announcement is
\* rejected by the platform: an answered index is either behind the current
\* one or has its handler still on the way; currentIndex only ever moves by
\* one step forward, past an answered index.
C4_BattleAdvancement ==
  /\ [](\A sid \in DOMAIN sessions : \A i \in Answered(sessions[sid]) :
          \/ sessions[sid].currentPuzzleIndex >= i
          \/ \E t \in 1..Len(tasks) :
               /\ tasks[t].kind \in {"cbReply", "cbAnnounce"}
               /\ tasks[t].sid = sid
               /\ tasks[t].idx = i - 1)
  /\ [][\A sid \in Kept :
          \/ sessions'[sid].currentPuzzleIndex
               = sessions[sid].currentPuzzleIndex
          \/ /\ sessions'[sid].currentPuzzleIndex
                  = sessions[sid].currentPuzzleIndex + 1
             /\ sessions'[sid].currentPuzzleIndex \in Answered(sessions[sid])
       ]_vars

\* C9: a battle click, accepted or rejected, leaves every existing user
\* record (score, attempts, correct, streaks, answers) and every group record
\* as they were; an accepted click whose letter stands for the correct
\* option in the current puzzle's posted keyboard adds exactly 1 to the
\* clicking user's battle score, and any other click changes no battle score.
C9_BattleScoringLocal ==
  [][\A u \in Users, c \in Chats, m \in 1..MaxBattleMsgs, k \in 1..2 :
       BattleClick(u, c, m, k) =>
         /\ \A x \in DOMAIN users : users'[x] = users[x]
         /\ groups' = groups
         /\ \A sid \in Kept :
              IF /\ sid = activeBattles[c]
                 /\ Answered(sessions'[sid]) # Answered(sessions[sid])
                 /\ k \in 1..Len(CurrentState(c).postedOptionsMap)
                 /\ CurrentState(c).postedOptionsMap[k]
                      = DesignatedText(puzzles[IndexOfId(puzzles,
                                         CurrentState(c).id)].options)
              THEN sessions'[sid].scores
                     = [sessions[sid].scores EXCEPT ![u] = @ + 1]
              ELSE sessions'[sid].scores = sessions[sid].scores
    ]_vars

\* a battle in which u2, unknown before, scored a point and some accepted
\* answer was wrong, with the loaded record of u1 as it was
C9_Witness ==
  /\ "u2" \in DOMAIN users
  /\ users["u2"] = NewUser
  /\ users["u1"] = LoadedUser(3)
  /\ \E sid \in DOMAIN sessions :
       /\ sessions[sid].scores["u2"] >= 1
       /\ Cardinality(Answered(sessions[sid]))
            > SumScores(sessions[sid].scores, Users)

\* C10: a battle click that does not come from the message that posted the
\* current puzzle of the chat's battle (an earlier puzzle's message, or a
\* message of an earlier battle) changes neither scores nor answeredBy nor
\* currentIndex of any battle.
C10_CurrentPuzzleOnly ==
  [][\A u \in Users, c \in Chats, m \in 1..MaxBattleMsgs, k \in 1..2 :
       (/\ BattleClick(u, c, m, k)
        /\ IsActiveBattle(Cur, c)
        /\ <<activeBattles[c], c, m,
             sessions[activeBattles[c]].currentPuzzleIndex>> \notin sessMsgs.posted)
         => sessions' = sessions]_vars

\* positions in data.puzzles of the valid puzzles: at least one option and
\* one option flagged correct
ValidSet ==
  {i \in 1..Len(puzzles) :
     /\ Len(puzzles[i].options) >= 1
     /\ \E k \in 1..Len(puzzles[i].options) : puzzles[i].options[k].isAnswer}

\* id of the valid puzzle at position p (from 0) in puzzleNumber order
ValidAt(p) ==
  puzzles[CHOOSE i \in ValidSet :
            Cardinality({j \in ValidSet :
               puzzles[j].puzzleNumber < puzzles[i].puzzleNumber}) = p].id

\* C6: a battle start on S >= 5 valid puzzles with battle cursor c (0 for a
\* group not known yet, c >= S read as 0) makes a battle of exactly the 5
\* puzzles at positions (c+i) mod S, i = 0..4, of the valid puzzles in
\* puzzleNumber order, all distinct, and sets battleNextPuzzleIndex to
\* (c+5) mod S.
C6_BattleBatchSelection ==
  [][\A c \in Chats : (BattleCmd(c) /\ nextSid' = nextSid + 1) =>
       LET S == Cardinality(ValidSet)
           cur == IF c \in DOMAIN groups
                  THEN groups[c].battleNextPuzzleIndex ELSE 0
           c0 == IF cur >= S THEN 0 ELSE cur
           batch == sessions'[nextSid'].puzzles
       IN /\ S >= 5
          /\ activeBattles'[c] = nextSid'
          /\ Len(batch) = 5
          /\ \A i \in 0..4 : batch[i + 1].id = ValidAt((c0 + i) % S)
          /\ \A i, j \in 1..5 : i # j => batch[i].id # batch[j].id
          /\ groups'[c].battleNextPuzzleIndex = (c0 + 5) % S
    ]_vars

\* the example of the specification: 5 valid puzzles, cursor 3, the batch
\* #4 #5 #1 #2 #3 and the cursor still 3
C6_Witness ==
  /\ Len(puzzles) = 5
  /\ Cardinality(ValidSet) = 5
  /\ "g1" \in DOMAIN groups
  /\ groups["g1"].battleNextPuzzleIndex = 3
  /\ activeBattles["g1"] # 0
  /\ [i \in 1..5 |-> sessions[activeBattles["g1"]].puzzles[i].id]
       = <<4, 5, 1, 2, 3>>

\* C7: a battle requested in a group chat while fewer than 5 valid puzzles
\* exist changes no battle, no group record and no puzzle.
C7_BattleTooFewPuzzles ==
  [][\A c \in Chats :
       (BattleCmd(c) /\ IsGroupChat(c) /\ Cardinality(ValidSet) < 5)
         => UNCHANGED <<sessions, activeBattles, groups, puzzles>>]_vars

\* battle objects of chat c that are marked active
ActiveSessions(c) ==
  {sid \in DOMAIN sessions :
     sessions[sid].chatId = c /\ sessions[sid].isActive}

\* C8: a chat never has two active battles, and a battle requested while
\* the chat's battle is active changes neither a battle nor the group's
\* battleNextPuzzleIndex.
C8_OneSessionPerChat ==
  /\ [](\A c \in Chats : Cardinality(ActiveSessions(c)) <= 1)
  /\ [][\A c \in Chats : (BattleCmd(c) /\ IsActiveBattle(Cur, c))
          => UNCHANGED <<sessions, activeBattles, groups>>]_vars

\* C13: once /reindexpuzzles has run after the last creation or removal, the
\* puzzleNumber values of the M remaining puzzles are exactly 1..M, without
\* duplicates, and ascend with the creation time.
C13_ReindexDensity ==
  served.reindexed =>
    /\ {puzzles[i].puzzleNumber : i \in 1..Len(puzzles)} = 1..Len(puzzles)
    /\ \A i, j \in 1..Len(puzzles) :
         puzzles[i].createdAt < puzzles[j].createdAt
           => puzzles[i].puzzleNumber < puzzles[j].puzzleNumber

\* the first of three puzzles was removed and the catalog reindexed: the
\* puzzles created second and third carry the numbers 1 and 2
C13_Witness ==
  /\ served.reindexed
  /\ Len(puzzles) = 2
  /\ \E i, j \in 1..2 :
       /\ puzzles[i].id = 2 /\ puzzles[i].puzzleNumber = 1
       /\ puzzles[j].id = 3 /\ puzzles[j].puzzleNumber = 2

\* C14: no two puzzles of the catalog carry the same puzzleNumber.
C14_UniqueNumbers ==
  \A i, j \in 1..Len(puzzles) :
    i # j => puzzles[i].puzzleNumber # puzzles[j].puzzleNumber

\* C19: every puzzle of the catalog has at least one option and exactly one
\* option flagged correct.
C19_ExactlyOneCorrect ==
  \A i \in 1..Len(puzzles) :
    /\ Len(puzzles[i].options) >= 1
    /\ Cardinality({k \in 1..Len(puzzles[i].options) :
                      puzzles[i].options[k].isAnswer}) = 1

\* C12: a first-attempt wrong answer on a puzzle that has an option flagged
\* correct leaves the user's currentStreak at exactly 0 and maxStreak as it
\* was; a wrong answer on a puzzle the user already submitted on (a practice
\* attempt) leaves currentStreak as it was.
C12_StreakReset ==
  [][\A u \in Users, c \in Chats, m \in 1..MaxMsgs, k \in 1..2 :
       (/\ StdAnswer(u, c, m, k)
        /\ TargetId(c, m) # 0
        /\ HasAnswer(TargetPuzzle(c, m).options)
        /\ PostedEntryMap(TargetPuzzle(c, m), c, m)[k]
             # DesignatedText(TargetPuzzle(c, m).options))
         => LET pre == registerUser(users, u)[u]
            IN IF <<u, TargetId(c, m)>> \notin submitted
               THEN /\ users'[u].currentStreak = 0
                    /\ users'[u].maxStreak = pre.maxStreak
               ELSE users'[u].currentStreak = pre.currentStreak]_vars

\* C20: a /puzzle request with a number that no puzzle of the catalog
\* carries (0 included) posts nothing and leaves the group records, the
\* puzzles with their postings and every user's lastPuzzleId as they were.
C20_OutOfRangeNumber ==
  [][\A u \in Users, c \in Chats, req \in 0..(MaxCatalog + 1) :
       (/\ PuzzleCmd(u, c, req)
        /\ \A i \in 1..Len(puzzles) : puzzles[i].puzzleNumber # req)
         => /\ UNCHANGED <<groups, puzzles, tasks, msgs>>
            /\ \A x \in DOMAIN users :
                 users'[x].lastPuzzleId = users[x].lastPuzzleId]_vars

\* C11: no step (first attempt, practice attempt, battle answer, score
\* adjustment, puzzle removal, reindex or any other) removes a user record
\* or lowers its maxStreak.
C11_MaxStreakMonotonic ==
  [][\A u \in DOMAIN users :
       /\ u \in DOMAIN users'
       /\ users'[u].maxStreak >= users[u].maxStreak]_vars

\* u1, loaded with a streak of 3, lost it on a wrong first attempt and
\* solved another puzzle since; a battle puzzle was posted and answered, the
\* score was adjusted, a puzzle removed and the catalog reindexed
C11_Witness ==
  /\ users["u1"].maxStreak = 3
  /\ users["u1"].currentStreak = 1
  /\ users["u1"].attempts = 5
  /\ adjusts = 1
  /\ Len(puzzles) < BATTLE_PUZZLE_COUNT
  /\ served.reindexed
  /\ \E sid \in DOMAIN sessions : Answered(sessions[sid]) # {}

\* C16: a started battle session leaves the registry of its chat only once it
\* has been concluded; no step removes or replaces the entry of a session
\* that is still active.
C16_SessionLifetime ==
  [][\A c \in Chats :
       IsActiveBattle(Cur, c) => activeBattles'[c] = activeBattles[c]]_vars

\* the battle object sid is in no entry of the registry
Discarded(sid) == \A c \in Chats : activeBattles[c] # sid

\* some puzzle carries a posting of message m of chat c
HasPosting(c, m) ==
  \E i \in 1..Len(puzzles) : \E j \in 1..Len(puzzles[i].postedIn) :
    /\ puzzles[i].postedIn[j].chatId = c
    /\ puzzles[i].postedIn[j].msgId = m

\* C15: once a battle session has left the registry, no puzzle carries a
\* posting of a message that this session posted.
C15_ConcludeCleansPostings ==
  \A p \in sessMsgs.posted : Discarded(p[1]) => ~HasPosting(p[2], p[3])

\* the entries a scoreboard of the battle object has to list: one per user
\* who scored, with the score
ScoreSet(battle) ==
  {[user |-> u, score |-> battle.scores[u]] :
     u \in {v \in Users : battle.scores[v] > 0}}

BoardSet(scoreboard) == {scoreboard[i] : i \in 1..Len(scoreboard)}

\* the step concludes the battle object sid: it is inactive afterwards and a
\* closing message with the scores it had is on its way
AbortsTo(sid) ==
  /\ sid \in DOMAIN sessions'
  /\ ~sessions'[sid].isActive
  /\ \E i \in 1..Len(tasks') :
       /\ tasks'[i].kind = "endMsg"
       /\ tasks'[i].sid = sid
       /\ BoardSet(tasks'[i].map.scoreboard) = ScoreSet(sessions[sid])

\* the puzzle the battle object is about to post is gone or not valid
PostFails(battle) ==
  /\ battle.currentPuzzleIndex < BATTLE_PUZZLE_COUNT
  /\ LET pi == IndexOfId(puzzles,
                         battle.puzzles[battle.currentPuzzleIndex + 1].id)
     IN pi = 0 \/ ~IsValidPuzzle(puzzles[pi])

\* the registry's battle object as postNextBattlePuzzle finds it when the
\* callback handler t has advanced the battle object it holds
Advanced(t) ==
  LET battle == sessions[activeBattles[tasks[t].chat]]
  IN IF activeBattles[tasks[t].chat] = tasks[t].sid
     THEN [battle EXCEPT !.currentPuzzleIndex = @ + 1]
     ELSE battle

\* C17: when the send of a puzzle of an active battle is rejected, or the
\* puzzle an active battle is about to post fails validation, the step
\* concludes that battle with a closing message built from exactly the scores
\* it had; a concluded battle accepts no answer (its scores and answeredBy
\* marks never change); the delivery of the closing message leaves the battle
\* in no registry entry.
C17_BattleAbort ==
  [][/\ \A t \in 1..Len(tasks) :
          /\ BattlePhotoFailed(t) /\ sessions[tasks[t].sid].isActive
               => AbortsTo(tasks[t].sid)
          /\ BattleStartSent(t) /\ IsActiveBattle(Cur, tasks[t].chat)
               /\ PostFails(sessions[activeBattles[tasks[t].chat]])
               => AbortsTo(activeBattles[tasks[t].chat])
          /\ BattleAnnounceSent(t) /\ IsActiveBattle(Cur, tasks[t].chat)
               /\ PostFails(Advanced(t))
               => AbortsTo(activeBattles[tasks[t].chat])
          /\ EndMsgSent(t) =>
               \A c \in Chats : activeBattles'[c] # tasks[t].sid
     /\ \A sid \in DOMAIN sessions \cap DOMAIN sessions' :
          ~sessions[sid].isActive =>
            /\ ~sessions'[sid].isActive
            /\ sessions'[sid].scores = sessions[sid].scores
            /\ sessions'[sid].puzzles = sessions[sid].puzzles]_vars

\* the users who hold the highest score of the battle object, none when
\* nobody scored
MaxHolders(battle) ==
  {u \in Users : /\ battle.scores[u] > 0
                 /\ \A v \in Users : battle.scores[v] <= battle.scores[u]}

NonIncreasing(scoreboard) ==
  \A i \in 1..Len(scoreboard) : \A j \in i..Len(scoreboard) :
    scoreboard[i].score >= scoreboard[j].score

\* closing messages of battle object sid in the log: delivered, rejected
Delivered(log, sid) ==
  Cardinality({i \in 1..Len(log) : log[i].sid = sid /\ log[i].sent})

Rejected(log, sid) ==
  \E i \in 1..Len(log) : log[i].sid = sid /\ ~log[i].sent

\* C18: a delivered closing message names as winners exactly the users with
\* the highest score of its battle and lists every user who scored, in
\* non-increasing order of score; no battle gets two closing messages; and a
\* battle leaves the registry only when its closing message has been
\* delivered once, has been rejected by the platform, or is still being sent.
C18_BattleStandings ==
  [][/\ \A t \in 1..Len(tasks) :
          EndMsgSent(t) =>
            LET battle == sessions[tasks[t].sid]
                said == sessMsgs'.closed[Len(sessMsgs'.closed)]
            IN /\ {said.winners[i].user : i \in 1..Len(said.winners)}
                    = MaxHolders(battle)
               /\ NonIncreasing(said.scoreboard)
               /\ BoardSet(said.scoreboard) = ScoreSet(battle)
     /\ \A sid \in 1..nextSid : Delivered(sessMsgs'.closed, sid) <= 1
     /\ \A c \in Chats :
          activeBattles[c] # 0 /\ activeBattles'[c] # activeBattles[c] =>
            \/ Delivered(sessMsgs'.closed, activeBattles[c]) = 1
            \/ Rejected(sessMsgs'.closed, activeBattles[c])
            \/ \E i \in 1..Len(tasks') :
                  /\ tasks'[i].kind = "endMsg"
                  /\ tasks'[i].sid = activeBattles[c]]_vars

\* the score a group has on record, 0 for a chat without a group record
GroupScore(gs, c) == IF c \in DOMAIN gs THEN gs[c].score ELSE 0

GroupAttempts(gs, c) == IF c \in DOMAIN gs THEN gs[c].attempts ELSE 0

\* C21: a user's first standard-mode submission on a puzzle, made in a group
\* chat and changing the user's score by d # 0, changes the score of that
\* group by d and its attemptCount by 1 and leaves every other group alone;
\* every other standard-mode submission (a later one of the same user on the
\* same puzzle, or one in a private chat) changes no group.
C21_GroupScoring ==
  [][\A u \in Users, c \in Chats, m \in 1..MaxMsgs, k \in 1..2 :
       (StdAnswer(u, c, m, k) /\ TargetId(c, m) # 0)
         => LET d == users'[u].score - registerUser(users, u)[u].score
            IN IF /\ IsGroupChat(c)
                  /\ <<u, TargetId(c, m)>> \notin submitted
                  /\ d # 0
               THEN /\ c \in DOMAIN groups'
                    /\ groups'[c].score = GroupScore(groups, c) + d
                    /\ groups'[c].attempts = GroupAttempts(groups, c) + 1
                    /\ \A g \in DOMAIN groups \ {c} :
                         g \in DOMAIN groups' /\ groups'[g] = groups[g]
               ELSE groups' = groups]_vars

\* C22: /removepuzzle of a catalog puzzle takes it out of the catalog, leaves
\* no entry for it in any user's answers and no lastPuzzleId pointing at it,
\* and changes neither a user's score, attemptCount, correctCount and
\* streaks, nor another puzzle's puzzleNumber, nor any group record.
C22_RemoveCascade ==
  [][\A id \in PuzzleIds(puzzles) :
       RemovePuzzle(id) =>
         /\ id \notin PuzzleIds(puzzles')
         /\ DOMAIN users' = DOMAIN users
         /\ \A u \in DOMAIN users :
              /\ \A a \in users'[u].answers : a[1] # id
              /\ users'[u].lastPuzzleId # id
              /\ Stats(users'[u]) = Stats(users[u])
         /\ \A i \in 1..Len(puzzles) :
              puzzles[i].id # id =>
                /\ IndexOfId(puzzles', puzzles[i].id) # 0
                /\ puzzles'[IndexOfId(puzzles', puzzles[i].id)].puzzleNumber
                     = puzzles[i].puzzleNumber
         /\ groups' = groups]_vars

\* C23: after /reindexpuzzles every group record has nextPuzzleIndex = 0 and
\* battleNextPuzzleIndex = 0, whatever the record held before.
C23_ReindexResetsCursors ==
  [][Reindex =>
       \A c \in DOMAIN groups' :
         /\ groups'[c].nextPuzzleIndex = 0
         /\ groups'[c].battleNextPuzzleIndex = 0]_vars

\* C25: registerUser on an unknown user adds a record with score,
\* attemptCount, correctCount, currentStreak and maxStreak 0, no answers and
\* no lastPuzzleId, and touches no other record; on a known user it changes
\* nothing; a second call changes nothing after the first; and no step of the
\* bot drops a user record or lowers its attemptCount, correctCount or
\* maxStreak.
C25_EnsureUserIdempotent ==
  /\ [](\A u \in Users :
          LET once == registerUser(users, u)
          IN /\ DOMAIN once = DOMAIN users \cup {u}
             /\ \A v \in DOMAIN users : once[v] = users[v]
             /\ u \notin DOMAIN users =>
                  once[u] = [score |-> 0, attempts |-> 0, correct |-> 0,
                             currentStreak |-> 0, maxStreak |-> 0,
                             answers |-> {}, lastPuzzleId |-> 0]
             /\ registerUser(once, u) = once)
  /\ [][\A u \in DOMAIN users :
          /\ u \in DOMAIN users'
          /\ users'[u].attempts >= users[u].attempts
          /\ users'[u].correct >= users[u].correct
          /\ users'[u].maxStreak >= users[u].maxStreak]_vars

\* u1, unknown in the data file, was registered by its first command, has
\* answered a puzzle since and has another /puzzle being served
C25_Witness ==
  /\ "u1" \in DOMAIN users
  /\ users["u1"].attempts >= 1
  /\ users["u1"].score # 0
  /\ users["u1"].lastPuzzleId # 0
  /\ Len(tasks) = 1
  /\ MsgCount >= 1

\* the user has an entry for the puzzle in the answers map
HasAnswered(us, u, pid) ==
  u \in DOMAIN us /\ \E a \in us[u].answers : a[1] = pid

\* C28: a standard-mode submission by a user who already has answers[P] for
\* the puzzle P of the message replaces answers[P] by the chosen text when
\* the chosen text is that of the correct option and changes nothing else of
\* that user; when it is not, no user field changes; in both cases no other
\* user, no group and no puzzle changes.
C28_PracticeAttemptEffect ==
  [][\A u \in Users, c \in Chats, m \in 1..MaxMsgs, k \in 1..2 :
       (/\ StdAnswer(u, c, m, k)
        /\ TargetId(c, m) # 0
        /\ HasAnswered(users, u, TargetId(c, m)))
         => LET P == TargetPuzzle(c, m)
                chosen == PostedEntryMap(P, c, m)[k]
                right == HasAnswer(P.options)
                           /\ chosen = DesignatedText(P.options)
            IN /\ users' = IF right
                           THEN [users EXCEPT ![u] = SetAnswer(@, P.id, chosen)]
                           ELSE users
               /\ groups' = groups
               /\ puzzles' = puzzles]_vars

\* C29: a user's first standard-mode submission on a puzzle that has no
\* option flagged correct adds 1 to attemptCount and records the chosen text
\* as answers[P], after which the user counts as having attempted P; score,
\* correctCount, currentStreak, maxStreak, the user's other fields, the other
\* users and every group stay as they were.
C29_NoCorrectOption ==
  [][\A u \in Users, c \in Chats, m \in 1..MaxMsgs, k \in 1..2 :
       (/\ StdAnswer(u, c, m, k)
        /\ TargetId(c, m) # 0
        /\ <<u, TargetId(c, m)>> \notin submitted
        /\ ~HasAnswer(TargetPuzzle(c, m).options))
         => LET P == TargetPuzzle(c, m)
                pre == registerUser(users, u)
                chosen == PostedEntryMap(P, c, m)[k]
            IN /\ users' = [pre EXCEPT ![u].attempts = @ + 1,
                                      ![u].answers = @ \cup {<<P.id, chosen>>}]
               /\ alreadyAttempted(users'[u], P.id)
               /\ groups' = groups]_vars

\* C30: after a user's first standard-mode submission on a puzzle, whatever
\* text the pressed letter stands for, the already-attempted test of the
\* answer path is true for that user and that puzzle.
C30_AttemptedFlagSet ==
  [][\A u \in Users, c \in Chats, m \in 1..MaxMsgs, k \in 1..2 :
       (/\ StdAnswer(u, c, m, k)
        /\ TargetId(c, m) # 0
        /\ <<u, TargetId(c, m)>> \notin submitted)
         => alreadyAttempted(users'[u], TargetId(c, m))]_vars

\* the /stats replies in the chats, as <<chat, message_id>>
StatsAt ==
  {cm \in UNION {{<<c, i>> : i \in DOMAIN msgs[c]} : c \in Chats} :
     msgs[cm[1]][cm[2]].kind = "STATS"}

\* the title of the greatest threshold of the table that is <= score
TitleOfGreatest(score) ==
  IF score < 50 THEN "Unranked"
  ELSE LET reached == {i \in DOMAIN PLAYER_TITLES :
                         PLAYER_TITLES[i].score <= score}
           top == CHOOSE i \in reached :
                    \A j \in reached :
                      PLAYER_TITLES[j].score <= PLAYER_TITLES[i].score
       IN PLAYER_TITLES[top].title

\* the threshold of a title, below every threshold of the table for Unranked
ThresholdOf(title) ==
  IF title = "Unranked" THEN -1
  ELSE LET i == CHOOSE i \in DOMAIN PLAYER_TITLES :
                  PLAYER_TITLES[i].title = title
       IN PLAYER_TITLES[i].score

\* C24: every title the bot reports for a score is the title of the greatest
\* threshold of the table that is <= the score, Unranked for a score below
\* 50 (negative scores included), and of two reported scores the larger
\* never gets the title of the smaller threshold.
C24_TitleFor ==
  /\ \A a \in StatsAt :
       msgs[a[1]][a[2]].title = TitleOfGreatest(msgs[a[1]][a[2]].score)
  /\ \A a, b \in StatsAt :
       msgs[a[1]][a[2]].score <= msgs[b[1]][b[2]].score
         => ThresholdOf(msgs[a[1]][a[2]].title)
              <= ThresholdOf(msgs[b[1]][b[2]].title)

\* a negative score reported as Unranked and, after the adjustment, the same
\* user reported with a title of the table
C24_Witness ==
  \E a, b \in StatsAt :
    /\ msgs[a[1]][a[2]].score < 0
    /\ msgs[a[1]][a[2]].title = "Unranked"
    /\ msgs[b[1]][b[2]].score >= 50
    /\ msgs[b[1]][b[2]].title # "Unranked"

C26_LoadIdempotent ==
  [][/\ LoadData =>
          /\ disk' = Doc(puzzles', users', groups')
          /\ loadData(disk') = [data |-> disk', changed |-> FALSE]
     /\ (LoadData /\ disk = Doc(puzzles, users, groups)) => UNCHANGED vars]_vars

\* a loaded file whose first puzzle was dropped and whose second was
\* converted from answerKey, given creator, hint and number and stripped of
\* its expiry, with the user and group fields filled
C26_Witness ==
  /\ disk = Doc(puzzles, users, groups)
  /\ Len(puzzles) = 1
  /\ puzzles[1].id = 2
  /\ puzzles[1].options = FlaggedOptions
  /\ puzzles[1].answerKey = NoKey
  /\ puzzles[1].createdByUserName = "Admin"
  /\ puzzles[1].hint = NoText
  /\ puzzles[1].puzzleNumber = 2
  /\ puzzles[1].expiresAt = Undefined
  /\ "u1" \in DOMAIN users /\ users["u1"] = NewUser
  /\ "g1" \in DOMAIN groups /\ groups["g1"] = NewGroup

\* number of places of the sequence s that hold x
CountOf(s, x) == Cardinality({i \in DOMAIN s : s[i] = x})

\* the sequences a and b hold the same elements, each as often
SameElements(a, b) ==
  /\ Len(a) = Len(b)
  /\ \A i \in DOMAIN a : CountOf(a, a[i]) = CountOf(b, a[i])

\* the texts of the options of a puzzle, in their stored order
OptionTexts(p) == [i \in 1..Len(p.options) |-> p.options[i].text]

\* C31: every posting record of a puzzle with k options maps the first k
\* letters to a permutation of the puzzle's k option texts and the message
\* it names shows k buttons; no step adds, drops or alters an option of a
\* puzzle that stays in the catalog or changes which options are flagged.
C31_PostingPermutation ==
  /\ [](\A i \in 1..Len(puzzles) : \A j \in 1..Len(puzzles[i].postedIn) :
          LET post == puzzles[i].postedIn[j]
          IN /\ SameElements(post.postedOptionsMap, OptionTexts(puzzles[i]))
             /\ post.msgId \in 1..Len(msgs[post.chatId])
             /\ msgs[post.chatId][post.msgId].n = Len(puzzles[i].options))
  /\ [][\A i \in 1..Len(puzzles), j \in 1..Len(puzzles') :
          puzzles[i].id = puzzles'[j].id
            => SameElements(puzzles[i].options, puzzles'[j].options)]_vars

\* a puzzle authored as x, y with x flagged is posted with y on button A and
\* x on button B, and x is still the flagged option
C31_Witness ==
  \E i \in 1..Len(puzzles) : \E j \in 1..Len(puzzles[i].postedIn) :
    /\ puzzles[i].postedIn[j].postedOptionsMap = <<"y", "x">>
    /\ CorrectMoveText(puzzles[i].options) = "x"
    /\ Len(puzzles[i].options) = 2

\* the letters of the posting on message m of chat c whose text the handler
\* judges correct
JudgedLetters(c, m) ==
  LET P == TargetPuzzle(c, m)
      map == PostedEntryMap(P, c, m)
  IN {k \in 1..Len(map) : isCorrectMove(map[k], CorrectMoveText(P.options))}

\* C32: a scored standard-mode submission is counted correct exactly when
\* the button pressed shows the puzzle's designated correct option. One
\* button of a posting shows that option, so a press counted correct is the
\* only letter of the posting that would be, and a press not counted correct
\* on a puzzle with a designated option leaves another letter that would be.
C32_CorrectnessJudgement ==
  [][\A u \in Users, c \in Chats, m \in 1..MaxMsgs, k \in 1..2 :
       (/\ StdAnswer(u, c, m, k)
        /\ TargetId(c, m) # 0
        /\ ~alreadyAttempted(registerUser(users, u)[u], TargetId(c, m)))
         => LET before == registerUser(users, u)[u].correct
                counted == users'[u].correct = before + 1
                P == TargetPuzzle(c, m)
            IN /\ counted => (HasAnswer(P.options) /\ JudgedLetters(c, m) = {k})
               /\ (~counted /\ HasAnswer(P.options))
                    => \E k2 \in JudgedLetters(c, m) : k2 # k]_vars

\* C33: every battle session that was started is eventually concluded (no
\* longer active) and out of the registry, whatever calls fail, as long as
\* pending calls settle and posted puzzles receive submissions.
C33_BattleTermination ==
  \A sid \in 1..MaxSessions :
    (sid \in DOMAIN sessions)
      ~> (/\ Discarded(sid)
          /\ sid \in DOMAIN sessions => ~sessions[sid].isActive)

\* a /puzzle handler of chat c is suspended on its send
InFlight(c) == \E t \in 1..Len(tasks) :
  tasks[t].kind = "puzzlePhoto" /\ tasks[t].chat = c

\* C34: a next-puzzle request of a group taken while an earlier request of
\* the same group is still being sent is served the position after the one
\* the earlier draw was served, modulo N, and leaves the cursor two positions
\* past the earlier draw, modulo N: no draw reads a cursor another one is
\* about to write.
C34_NoLostCursorUpdate ==
  [][\A c \in Chats :
       (DrawStep(c) /\ InFlight(c) /\ served.log[c] # <<>>) =>
         LET N == Len(puzzles)
             L == served'.log[c]
             first == OrderPos(L[Len(L) - 1]) - 1
         IN /\ OrderPos(L[Len(L)]) - 1 = (first + 1) % N
            /\ groups'[c].nextPuzzleIndex = (first + 2) % N
    ]_vars

\* two rotation draws of g1 are both still being sent, nothing posted yet
C34_Witness ==
  /\ Len(tasks) = 2
  /\ Len(served.log["g1"]) = 2
  /\ \A t \in 1..2 : /\ tasks[t].kind = "puzzlePhoto"
                     /\ tasks[t].chat = "g1"
                     /\ tasks[t].pid = served.log["g1"][t]
  /\ tasks[1].pid # tasks[2].pid
  /\ MsgCount = 0
  /\ groups["g1"].nextPuzzleIndex =
       (OrderPos(served.log["g1"][1]) + 1) % Len(puzzles)

\* attemptCount of user u, 0 before the user is known
AttemptCount(us, u) == IF u \in DOMAIN us THEN us[u].attempts ELSE 0

\* C35: of the standard-mode submissions one user makes on one puzzle, in
\* whatever order the handlers run, exactly one is scored as a first attempt
\* (the one that finds no earlier submission) and every other one is a
\* practice attempt that counts nothing.
C35_OneFirstAttempt ==
  [][\A u \in Users, c \in Chats, m \in 1..MaxMsgs, k \in 1..2 :
       (StdAnswer(u, c, m, k) /\ TargetId(c, m) # 0) =>
         AttemptCount(users', u) - AttemptCount(users, u) =
           (IF <<u, TargetId(c, m)>> \in submitted THEN 0 ELSE 1)]_vars

\* a battle was started in chat c in this step
BattleStartStep(c) ==
  /\ nextSid' = nextSid + 1
  /\ sessions'[nextSid'].chatId = c

\* every group record but that of chat c is the same after the step
OtherGroupsKept(c) ==
  /\ DOMAIN groups' = DOMAIN groups \cup {c}
  /\ \A d \in DOMAIN groups \ {c} : groups'[d] = groups[d]

\* C36: a standard next-puzzle draw of a group changes nothing of the group's
\* record but nextPuzzleIndex, a battle start nothing but
\* battleNextPuzzleIndex, and neither changes the record of another group.
C36_IndependentCursors ==
  [][\A c \in Chats :
       LET rec == addGroup(groups, c)[c]
       IN /\ DrawStep(c) =>
               /\ groups'[c] = [rec EXCEPT !.nextPuzzleIndex =
                                              groups'[c].nextPuzzleIndex]
               /\ OtherGroupsKept(c)
          /\ BattleStartStep(c) =>
               /\ groups'[c] = [rec EXCEPT !.battleNextPuzzleIndex =
                                              groups'[c].battleNextPuzzleIndex]
               /\ OtherGroupsKept(c)
    ]_vars

\* g1 has been drawn from and has started a battle, with another chat
\* registered: the rotation cursor has moved from 1 to 2 and the battle
\* cursor from 3 to 2, the score is as it was
C36_Witness ==
  /\ served.log["g1"] # <<>>
  /\ nextSid >= 1
  /\ DOMAIN groups = {"g1", "pv"}
  /\ groups["g1"].nextPuzzleIndex = 2
  /\ groups["g1"].battleNextPuzzleIndex = 2
  /\ groups["g1"].score = 8

\* C37: every puzzle a standard next-puzzle draw serves, and every puzzle of
\* the batch a battle start selects, is valid: it has options and one of
\* them is flagged correct.
C37_RotationServesValid ==
  [][\A c \in Chats :
       /\ DrawStep(c) =>
            LET L == served'.log[c]
            IN IsValidPuzzle(puzzles[IndexOfId(puzzles, L[Len(L)])])
       /\ BattleStartStep(c) =>
            \A i \in 1..BATTLE_PUZZLE_COUNT :
              IsValidPuzzle(
                puzzles[IndexOfId(puzzles, sessions'[nextSid'].puzzles[i].id)])
    ]_vars

\* chat c is registered again in this step: a next-puzzle request, /battle
\* or /addgroup handled for a chat that has a group record (/register of such
\* a chat changes nothing at all and is no step)
ReRegistration(c) ==
  /\ c \in DOMAIN groups
  /\ \/ PuzzleCmd("u1", c, NoNumber)
     \/ BattleCmd(c)
     \/ AddGroupCmd(c)

\* score, attemptCount and the two cursors of a group record
GroupState(g) ==
  <<g.score, g.attempts, g.nextPuzzleIndex, g.battleNextPuzzleIndex>>

\* C38: registering a chat that already has a group record, by /register, a
\* next-puzzle request, a battle start or /addgroup, leaves the record's
\* score, attemptCount, nextPuzzleIndex and battleNextPuzzleIndex as they
\* were but for the cursor the request itself advances, and every group
\* record has both cursors defined.
C38_ReRegistrationPreserves ==
  /\ [](\A c \in DOMAIN groups :
          /\ groups[c].nextPuzzleIndex # Undefined
          /\ groups[c].battleNextPuzzleIndex # Undefined)
  /\ [][\A c \in Chats : ReRegistration(c) =>
          /\ groups'[c].score = groups[c].score
          /\ groups'[c].attempts = groups[c].attempts
          /\ DrawStep(c) \/
               groups'[c].nextPuzzleIndex = groups[c].nextPuzzleIndex
          /\ BattleStartStep(c) \/
               groups'[c].battleNextPuzzleIndex =
                 groups[c].battleNextPuzzleIndex]_vars

\* C39: every record of the groups table belongs to a chat of type group or
\* supergroup; a next-puzzle request made in a private chat creates none.
C39_GroupsAreGroupChats == \A c \in DOMAIN groups : IsGroupChat(c)

\* C40: the counters of every user are ordered,
\* 0 <= currentStreak <= maxStreak <= correctCount <= attemptCount, in every
\* state, whatever first attempts, practice attempts, battle answers, score
\* adjustments, removals and reindexes came before.
C40_UserCounterOrder ==
  \A u \in DOMAIN users :
    /\ 0 <= users[u].currentStreak
    /\ users[u].currentStreak <= users[u].maxStreak
    /\ users[u].maxStreak <= users[u].correct
    /\ users[u].correct <= users[u].attempts

\* u1 has answered wrong and then right after an earlier streak of three, so
\* the four counters are strictly apart, and a score adjustment, a removal
\* and a battle start have happened as well
C40_Witness ==
  /\ "u1" \in DOMAIN users
  /\ 0 < users["u1"].currentStreak
  /\ users["u1"].currentStreak < users["u1"].maxStreak
  /\ users["u1"].maxStreak < users["u1"].correct
  /\ users["u1"].correct < users["u1"].attempts
  /\ adjusts > 0
  /\ Len(puzzles) < BATTLE_PUZZLE_COUNT
  /\ nextSid > 0

====
